---------------------------- MODULE Spec2Model ----------------------------
(***************************************************************************)
(* Indexing / status / search orchestration of FileManagerForNas:          *)
(* the status store (backend/index_manager.py), the background indexing    *)
(* pipeline and the request handlers (backend/main.py), the two providers  *)
(* (backend/providers/local.py, synology.py) and the search service        *)
(* (backend/search_service.py).                                            *)
(*                                                                         *)
(* Strings are sequences of tokens.  A token is one character, except for  *)
(* the substrings that no path of the universe ever splits (".txt",        *)
(* "-chunk-"), so str.startswith is the prefix order on token sequences.   *)
(* A text is a sequence whose i-th element is the position i: a slice of   *)
(* it says exactly which characters it holds.                              *)
(***************************************************************************)
EXTENDS Integers, Sequences, FiniteSets, TLC

VARIABLES
    db,       \* rows of the table indexed_folders (index_metadata.db)
    index,    \* the Chroma collection "file_contents": chunk id -> chunk
    tasks,    \* the background tasks added by start-index, oldest first
    fs,       \* the live file tree behind the providers
    clock,    \* wall clock, in half microseconds
    up,       \* TRUE while the server process runs
    last,     \* the last completed call and what it returned
    store,    \* the connection of the status store: open, failing or closed
    nas       \* the remote provider of the session: its _sid and its client

vars == <<db, index, tasks, fs, clock, up, last, store, nas>>

-----------------------------------------------------------------------------
(* Bounds of the model *)

MaxTextLen == 1000     \* longest text handed to chunk_text in SpecChunk
MaxClock   == 2        \* the clock stops ticking here
MaxCount   == 1        \* largest file_count a direct store call writes
MaxRuns    == 2        \* background tasks started in one behaviour
MaxK       == 3        \* largest n_results of the searches with every ranking

Min(a, b) == IF a < b THEN a ELSE b

SeqToSet(s) == {s[i] : i \in 1..Len(s)}

RECURSIVE SumOver(_, _)
SumOver(S, f) ==
    IF S = {} THEN 0
    ELSE LET x == CHOOSE y \in S : TRUE IN f[x] + SumOver(S \ {x}, f)

-----------------------------------------------------------------------------
(* Strings *)

\* str.startswith
StartsWith(s, prefix) ==
    /\ Len(prefix) <= Len(s)
    /\ SubSeq(s, 1, Len(prefix)) = prefix

-----------------------------------------------------------------------------
(* chunk_text (main.py) *)

ChunkSize    == 500
ChunkOverlap == 50

\* The text of length L.
Text(L) == [i \in 1..L |-> i]

\* text[start:end] of Python, 0-based and clamped to the text.
Slice(text, start, end) == SubSeq(text, start + 1, Min(end, Len(text)))

\* A step that forgets the overlap.
ChunkStepNoOverlap(chunk_size, chunk_overlap) == chunk_size

\* start += chunk_size - chunk_overlap
ChunkStep(chunk_size, chunk_overlap) == chunk_size - chunk_overlap

\* The while loop of chunk_text, from `start` with `chunks` collected so far.
RECURSIVE ChunkLoop(_, _, _, _, _)
ChunkLoop(text, chunk_size, chunk_overlap, start, chunks) ==
    IF start < Len(text)
    THEN ChunkLoop(text, chunk_size, chunk_overlap,
                   start + ChunkStep(chunk_size, chunk_overlap),
                   Append(chunks, Slice(text, start, start + chunk_size)))
    ELSE chunks

ChunkText(text) ==
    IF text = <<>> THEN <<>>
    ELSE ChunkLoop(text, ChunkSize, ChunkOverlap, 0, <<>>)

-----------------------------------------------------------------------------
(* The status store: IndexManager (index_manager.py) *)

\* IndexStatus
Statuses == {"indexed", "not_indexed", "outdated", "indexing", "failed"}

\* The statuses main.py ever writes.
WrittenStatuses == {"indexing", "indexed", "failed"}

\* The sqlite3 datetime adapter writes datetime.isoformat(" "): the fraction
\* is left out when the microsecond is 0.  A timestamp text is <<seconds>> or
\* <<seconds, microsecond>>.
AdaptDatetime(us) ==
    IF us % 1000000 = 0 THEN <<us \div 1000000>>
    ELSE <<us \div 1000000, us % 1000000>>

\* datetime.fromisoformat of such a text, in microseconds.
FromIsoFormat(s) ==
    IF Len(s) = 1 THEN s[1] * 1000000 ELSE s[1] * 1000000 + s[2]

\* datetime.now(): the clock cut to whole microseconds.
Now == clock \div 2

\* datetime.fromtimestamp(t) of a float t (here in half microseconds): rounded
\* to the nearest microsecond, a half to the even one.
FromTimestamp(t) ==
    LET q == t \div 2
    IN  IF t % 2 = 0 THEN q
        ELSE IF q % 2 = 0 THEN q ELSE q + 1

Row(provider_id, folder_path, at, status, file_count) ==
    [provider_id |-> provider_id, folder_path |-> folder_path,
     last_indexed_at |-> at, status |-> status, file_count |-> file_count]

HasKey(r, provider_id, folder_path) ==
    r.provider_id = provider_id /\ r.folder_path = folder_path

\* A plain INSERT on a table without the UNIQUE constraint.
InsertOnly(rows, provider_id, folder_path, status, file_count) ==
    rows \cup {Row(provider_id, folder_path, AdaptDatetime(Now), status, file_count)}

\* INSERT ... ON CONFLICT(provider_id, folder_path) DO UPDATE SET
\* last_indexed_at, status, file_count
Upsert(rows, provider_id, folder_path, status, file_count) ==
    {r \in rows : ~HasKey(r, provider_id, folder_path)}
        \cup {Row(provider_id, folder_path, AdaptDatetime(Now), status, file_count)}

\* Optional[T]: None is the empty sequence, a value v is <<v>>.
None == <<>>

Some(v) == <<v>>

\* The statement raises sqlite3.Error (the file locked, the disk failing):
\* every operation catches it and prints.
StorageError == store = "failing"

\* A store that goes on writing while the storage layer fails.
StoreWriteAnyway(rows, written) == written

\* `with self.conn: self.conn.execute(...)`: the statement is committed, or
\* rolled back when it raises; a closed store (conn is None) executes nothing.
StoreWrite(rows, written) == IF store = "open" THEN written ELSE rows

\* get_folder_status: dict(row) of fetchone, or None
GetFolderStatus(rows, provider_id, folder_path) ==
    LET hit == {r \in rows : HasKey(r, provider_id, folder_path)}
    IN  IF StorageError \/ hit = {} THEN None ELSE Some(CHOOSE r \in hit : TRUE)

\* A lookup by folder path alone, whoever the owner.
GetStatusesOfAnyOwner(rows, provider_id, folder_paths) ==
    LET found == {p \in SeqToSet(folder_paths) : \E r \in rows : r.folder_path = p}
    IN  [p \in found |-> CHOOSE r \in rows : r.folder_path = p]

\* get_multiple_folder_statuses: {row.folder_path: row} of the rows found
GetMultipleFolderStatuses(rows, provider_id, folder_paths) ==
    IF folder_paths = <<>> \/ StorageError THEN <<>>
    ELSE LET found == {p \in SeqToSet(folder_paths) :
                          \E r \in rows : HasKey(r, provider_id, p)}
         IN  [p \in found |-> CHOOSE r \in rows : HasKey(r, provider_id, p)]

\* A DELETE by folder path alone.
DeleteRowByPath(rows, provider_id, folder_path) ==
    {r \in rows : r.folder_path # folder_path}

\* DELETE FROM indexed_folders WHERE provider_id = ? AND folder_path = ?
DeleteRow(rows, provider_id, folder_path) ==
    {r \in rows : ~HasKey(r, provider_id, folder_path)}

\* A cleanup that marks every row failed.
CleanupAll(rows) ==
    {[r EXCEPT !.status = "failed"] : r \in rows}

\* _cleanup_stale_indexing_statuses: UPDATE ... SET status = 'failed' for
\* every row selected with status = 'indexing'
CleanupStaleIndexingStatuses(rows) ==
    {IF r.status = "indexing" THEN [r EXCEPT !.status = "failed"] ELSE r : r \in rows}

-----------------------------------------------------------------------------
(* The live file tree.  Both providers are mounted over the same tree; paths *)
(* are written from the root (LocalProvider: relative to root_dir).          *)

D  == <<"d">>                     \* folder "d"
D2 == <<"d", "2">>                \* its sibling "d2"
X  == <<"x">>                     \* a folder that never exists

Join(dir, name) == dir \o <<"/">> \o name

\* name, kind and parent folder of every entry that can exist: "d" holds a
\* text file and a binary file, "d2" a text file and a folder named "s.md"
\* with a source file in it
Entries ==
    { [name |-> <<"d">>,         is_directory |-> TRUE,  path |-> D,  parent |-> <<>>],
      [name |-> <<"a", ".txt">>, is_directory |-> FALSE, path |-> Join(D, <<"a", ".txt">>), parent |-> D],
      [name |-> <<"b", ".bin">>, is_directory |-> FALSE, path |-> Join(D, <<"b", ".bin">>), parent |-> D],
      [name |-> <<"d", "2">>,    is_directory |-> TRUE,  path |-> D2, parent |-> <<>>],
      [name |-> <<"e", ".txt">>, is_directory |-> FALSE, path |-> Join(D2, <<"e", ".txt">>), parent |-> D2],
      [name |-> <<"s", ".md">>,  is_directory |-> TRUE,  path |-> Join(D2, <<"s", ".md">>),  parent |-> D2],
      [name |-> <<"c", ".py">>,  is_directory |-> FALSE,
       path |-> Join(Join(D2, <<"s", ".md">>), <<"c", ".py">>), parent |-> Join(D2, <<"s", ".md">>)] }

PathA == Join(D, <<"a", ".txt">>)
PathB == Join(D, <<"b", ".bin">>)
PathE == Join(D2, <<"e", ".txt">>)
PathS == Join(D2, <<"s", ".md">>)
PathC == Join(PathS, <<"c", ".py">>)

FilePaths == {e.path : e \in {x \in Entries : ~x.is_directory}}
DirPaths  == {e.path : e \in {x \in Entries : x.is_directory}}

EntryAt(path) == CHOOSE e \in Entries : e.path = path

\* os.path.exists
Exists(path) == path \in fs.present

IsDir(path) == Exists(path) /\ EntryAt(path).is_directory

\* FileItem (base.py); size is never read by the core and is left out.
FileItem(e, mtime) ==
    [name |-> e.name, is_directory |-> e.is_directory, path |-> e.path,
     last_modified |-> mtime]

ItemAt(path) ==
    FileItem(EntryAt(path), IF IsDir(path) THEN fs.mtime[path] ELSE 0)

\* The entries of one folder in listing order, files first (os.walk yields
\* (root, dirs, files); the loop appends the files, then the dirs).
RECURSIVE SetToSeq(_)
SetToSeq(S) ==
    IF S = {} THEN <<>>
    ELSE LET x == CHOOSE y \in S : \A z \in S : Len(y) <= Len(z)
         IN  <<x>> \o SetToSeq(S \ {x})

FilesIn(dir) ==
    SetToSeq({p \in FilePaths \cap fs.present : EntryAt(p).parent = dir})

DirsIn(dir) ==
    SetToSeq({p \in DirPaths \cap fs.present : EntryAt(p).parent = dir})

ItemsOf(paths) == [i \in 1..Len(paths) |-> ItemAt(paths[i])]

-----------------------------------------------------------------------------
(* LocalProvider (providers/local.py) *)

\* A call either returns a value or raises.
Ret(v)   == [raised |-> FALSE, value |-> v]
Raise(e) == [raised |-> TRUE, value |-> e]

\* os.walk(full_path), top-down: per folder its files, then its folders.  A
\* folder the system refuses to scan (unreadable) yields nothing: os.walk
\* ignores the error of scandir.
RECURSIVE Walk(_, _)
Walk(queue, unreadable) ==
    IF queue = <<>> THEN <<>>
    ELSE LET root == Head(queue)
         IN  IF root \in unreadable THEN Walk(Tail(queue), unreadable)
             ELSE ItemsOf(FilesIn(root)) \o ItemsOf(DirsIn(root))
                     \o Walk(DirsIn(root) \o Tail(queue), unreadable)

\* root_dir, an absolute path: "/r"
RootDir == <<"/", "r">>

\* What lies beside the root: the folder "/r2" with the file "/r2/k.txt" and
\* the folder "/q".
OutsideDirs == {<<"/", "r", "2">>, <<"/", "q">>}

OutsideFiles == {<<"/", "r", "2", "/", "k", ".txt">>}

OutsidePaths == OutsideDirs \cup OutsideFiles

\* path.split("/")
RECURSIVE Split(_)
Split(s) ==
    IF s = <<>> THEN << <<>> >>
    ELSE LET rest == Split(Tail(s))
         IN  IF Head(s) = "/" THEN << <<>> >> \o rest
             ELSE << <<Head(s)>> \o Head(rest) >> \o Tail(rest)

\* os.path.normpath on the components of an absolute path: empty and "."
\* components are dropped, ".." drops the component before it, if any.
RECURSIVE NormPath(_, _)
NormPath(comps, out) ==
    IF comps = <<>> THEN out
    ELSE LET c == Head(comps)
         IN  IF c = <<>> \/ c = <<".">> THEN NormPath(Tail(comps), out)
             ELSE IF c = <<"..">>
                  THEN NormPath(Tail(comps),
                                IF out = <<>> THEN out ELSE SubSeq(out, 1, Len(out) - 1))
                  ELSE NormPath(Tail(comps), Append(out, c))

RECURSIVE JoinAbs(_)
JoinAbs(comps) ==
    IF comps = <<>> THEN <<>>
    ELSE <<"/">> \o Head(comps) \o JoinAbs(Tail(comps))

\* os.path.abspath of an absolute path
AbsPath(p) ==
    LET comps == NormPath(Split(p), <<>>)
    IN  IF comps = <<>> THEN <<"/">> ELSE JoinAbs(comps)

\* os.path.join(a, b): an absolute b replaces a
OsJoin(a, b) ==
    IF b # <<>> /\ b[1] = "/" THEN b ELSE a \o <<"/">> \o b

\* The location is the root or lies below it.
InsideRoot(full_path) ==
    full_path = RootDir \/ StartsWith(full_path, RootDir \o <<"/">>)

\* _get_full_path: full_path.startswith(self.root_dir) on the strings
GetFullPath(path) ==
    LET full_path == AbsPath(OsJoin(RootDir, path))
    IN  IF ~StartsWith(full_path, RootDir) THEN Raise("PermissionError")
        ELSE Ret(full_path)

\* os.path.relpath(full_path, root_dir) of a location below the root: the
\* path as the tree writes it
TreePath(full_path) ==
    IF Len(full_path) <= Len(RootDir) + 1 THEN <<>>
    ELSE SubSeq(full_path, Len(RootDir) + 2, Len(full_path))

\* os.path.exists, os.path.isdir and os.path.isfile of an absolute path
OsExists(full_path) ==
    IF full_path = RootDir THEN TRUE
    ELSE IF InsideRoot(full_path) THEN Exists(TreePath(full_path))
    ELSE full_path \in fs.present

OsIsDir(full_path) ==
    IF full_path = RootDir THEN TRUE
    ELSE IF InsideRoot(full_path) THEN IsDir(TreePath(full_path))
    ELSE full_path \in OutsideDirs \cap fs.present

OsIsFile(full_path) == OsExists(full_path) /\ ~OsIsDir(full_path)

\* The entries os.walk finds under a folder outside the tree, named by their
\* absolute path.
OutsideItems(full_path) ==
    LET below == {p \in fs.present \cap OutsidePaths :
                     StartsWith(p, full_path \o <<"/">>)}
        names == SetToSeq(below)
    IN  [i \in 1..Len(names) |->
            [name |-> SubSeq(names[i], Len(full_path) + 2, Len(names[i])),
             is_directory |-> names[i] \in OutsideDirs,
             path |-> names[i], last_modified |-> 0]]

\* list_files_recursive: _get_full_path raises PermissionError for a path
\* that leaves the root, a path that is no folder raises FileNotFoundError.
LocalListFilesRecursive(path, unreadable) ==
    LET got == GetFullPath(path)
    IN  IF got.raised THEN Raise("PermissionError")
        ELSE IF ~OsIsDir(got.value) THEN Raise("FileNotFoundError")
        ELSE IF InsideRoot(got.value)
             THEN Ret(Walk(<<TreePath(got.value)>>, unreadable))
             ELSE Ret(OutsideItems(got.value))

\* get_metadata: None for a missing path or one outside the root; the root
\* itself is not asked for by the core.
LocalGetMetadata(path) ==
    LET got == GetFullPath(path)
    IN  IF got.raised THEN Ret(None)
        ELSE IF ~OsExists(got.value) \/ got.value = RootDir THEN Ret(None)
        ELSE IF InsideRoot(got.value) THEN Ret(Some(ItemAt(TreePath(got.value))))
        ELSE Ret(Some([name |-> <<>>, is_directory |-> OsIsDir(got.value),
                       path |-> got.value, last_modified |-> 0]))

-----------------------------------------------------------------------------
(* SynologyAPIProvider (providers/synology.py) *)

\* get_metadata: PermissionError and ConnectionError of the request give None
\* (without a session _api_request raises PermissionError); `failing` are the
\* paths whose API request fails.  A closed client raises RuntimeError, which
\* is not caught here.
SynoGetMetadata(path, failing) ==
    IF nas.closed THEN Raise("RuntimeError")
    ELSE IF nas.sid = None \/ path \in failing \/ ~Exists(path) THEN Ret(None)
    ELSE Ret(Some(ItemAt(path)))

\* list_files: the request raises for a failing path
SynoListFiles(path, failing) ==
    IF nas.closed THEN Raise("RuntimeError")
    ELSE IF nas.sid = None \/ path \in failing \/ ~IsDir(path) THEN Raise("PermissionError")
    ELSE Ret(ItemsOf(FilesIn(path)) \o ItemsOf(DirsIn(path)))

\* The while loop of list_files_recursive: every exception is caught per
\* path and the path skipped.
RECURSIVE SynoCrawl(_, _, _, _)
SynoCrawl(path, queue, all_items, failing) ==
    IF queue = <<>> THEN all_items
    ELSE LET current_path == Head(queue)
             res   == SynoGetMetadata(current_path, failing)
             got   == res.value
             found == ~res.raised /\ got # None
             meta  == got[1]
             with_meta == IF found /\ meta.path # path
                          THEN Append(all_items, meta) ELSE all_items
             listing == IF found /\ meta.is_directory
                        THEN SynoListFiles(current_path, failing)
                        ELSE Ret(<<>>)
             items == IF listing.raised THEN <<>> ELSE listing.value
             files == SelectSeq(items, LAMBDA it : ~it.is_directory)
             dirs  == SelectSeq(items, LAMBDA it : it.is_directory)
         IN  SynoCrawl(path,
                       Tail(queue) \o [i \in 1..Len(dirs) |-> dirs[i].path],
                       with_meta \o files, failing)

SynoListFilesRecursive(path, failing) ==
    Ret(SynoCrawl(path, <<path>>, <<>>, failing))

-----------------------------------------------------------------------------
(* Providers by owner: get_provider_and_id (main.py) *)

\* provider_id "local" is the default LocalProvider; "nas" stands for the
\* sha256 of host:username that login gives a SynologyAPIProvider.
ProviderIds == {"local", "nas"}

IsLocal(provider_id) == provider_id = "local"

\* provider.list_files_recursive(folder_path); `failing` are the folders that
\* cannot be read (local: unreadable, remote: the request fails).
ListFilesRecursive(provider_id, path, failing) ==
    IF IsLocal(provider_id)
    THEN LocalListFilesRecursive(path, failing)
    ELSE SynoListFilesRecursive(path, failing)

\* provider.get_metadata(path)
GetMetadata(provider_id, path, failing) ==
    IF IsLocal(provider_id)
    THEN LocalGetMetadata(path)
    ELSE SynoGetMetadata(path, failing)

\* provider.read_file_content(path): both providers catch every exception
\* and return None; a file that is read gives its text.
ReadFileContent(provider_id, path, read_fails) ==
    IF read_fails \/ ~Exists(path) \/ IsDir(path) THEN None
    ELSE IF ~IsLocal(provider_id) /\ nas.closed THEN None
    ELSE Some(Text(fs.len[path]))

-----------------------------------------------------------------------------
(* The Chroma collection as used by SearchService (search_service.py) *)

\* An id that leaves the file path out.
ChunkIdNumberOnly(path, n) == <<"-chunk-", n>>

\* f"{file_item.path}-chunk-{i+1}"
ChunkId(path, n) == path \o <<"-chunk-", n>>

\* A stored document, written as <<first position, last position>> of the
\* slice of the text it is.
DocOf(chunk) == <<chunk[1], chunk[Len(chunk)]>>

\* collection.add(documents, metadatas, ids), overwriting by id
CollectionAdd(coll, documents, metadatas, ids) ==
    LET new == SeqToSet(ids)
        at(id) == CHOOSE i \in 1..Len(ids) : ids[i] = id
    IN  [id \in DOMAIN coll \cup new |->
            IF id \in new
            THEN [document |-> documents[at(id)], metadata |-> metadatas[at(id)]]
            ELSE coll[id]]

\* index_chunks: nothing is added for an empty batch
IndexChunks(coll, documents, metadatas, ids) ==
    IF documents = <<>> THEN coll
    ELSE CollectionAdd(coll, documents, metadatas, ids)

\* A deletion that takes the whole collection.
IdsToDeleteAll(coll, folder_path) == DOMAIN coll

\* ids_to_delete of delete_files_in_folder: doc_id.startswith(folder_path)
IdsToDelete(coll, folder_path) ==
    {id \in DOMAIN coll : StartsWith(id, folder_path)}

\* collection.delete(ids=ids_to_delete)
CollectionDelete(coll, ids) == [id \in DOMAIN coll \ ids |-> coll[id]]

-----------------------------------------------------------------------------
(* do_index_folder (main.py): one background task *)

\* text_extensions
TextExtensions == {".txt", ".md", ".py", ".js", ".ts", ".json", ".csv"}

\* Path(name).suffix: the last dot-part of a name that has a stem before it
Suffix(name) ==
    IF Len(name) >= 2 /\ name[Len(name)] \in TextExtensions \cup {".bin"}
    THEN name[Len(name)] ELSE ""

\* A filter that keeps every entry with a listed extension, folders too.
KeepItemBySuffixOnly(item) == Suffix(item.name) \in TextExtensions

\* the condition of files_to_index
KeepItem(item) ==
    ~item.is_directory /\ Suffix(item.name) \in TextExtensions

FilesToIndex(all_items) == SelectSeq(all_items, KeepItem)

\* A task as start-index queues it.  files_to_index holds the files still to
\* be read; log records, in order, what the run has done.
NewTask(provider_id, folder_path) ==
    [provider_id |-> provider_id, folder_path |-> folder_path, pc |-> "queued",
     files_to_index |-> <<>>, total_chunks_indexed |-> 0, log |-> <<>>]

Event(ev, arg) == [ev |-> ev, arg |-> arg]

\* The run and the two stores it writes.
Run(task, rows, coll) == [task |-> task, db |-> rows, index |-> coll]

\* index_manager.set_folder_status(provider_id, folder_path, status, n)
RunSetStatus(m, status, n) ==
    [m EXCEPT !.db = StoreWrite(m.db, Upsert(m.db, m.task.provider_id,
                                             m.task.folder_path, status, n)),
              !.task.log = Append(@, Event(IF StorageError THEN "write_error" ELSE "write",
                                           status))]

\* set_folder_status on a closed store: `with self.conn` raises on None, which
\* is no sqlite3.Error, and the exception leaves the function that called.
RunRaise(m, status) ==
    [m EXCEPT !.task.pc = "raised",
              !.task.log = Append(@, Event("raised", status))]

\* An indexing write that updates the status of a row and keeps its count.
RunBeginKeepsCount(m) ==
    LET old == {r \in m.db : HasKey(r, m.task.provider_id, m.task.folder_path)}
        n   == IF old = {} THEN 0 ELSE (CHOOSE r \in old : TRUE).file_count
    IN  [RunSetStatus(m, "indexing", n) EXCEPT !.task.pc = "crawl"]

\* line 103: set_folder_status(..., "indexing"), outside the try
RunBegin(m) ==
    IF store = "closed" THEN RunRaise(m, "indexing")
    ELSE [RunSetStatus(m, "indexing", 0) EXCEPT !.task.pc = "crawl"]

\* A failure handler that only prints.
RunFailSilently(m) == [m EXCEPT !.task.pc = "done"]

\* A job-level handler that also deletes the folder's chunks.
RunFailRollback(m) ==
    [RunSetStatus(m, "failed", 0)
        EXCEPT !.task.pc = "done",
               !.index = CollectionDelete(m.index, IdsToDelete(m.index, m.task.folder_path))]

\* A job-level handler whose write goes through on a closed store.
RunFailReopens(m) ==
    [m EXCEPT !.db = Upsert(m.db, m.task.provider_id, m.task.folder_path, "failed", 0),
              !.task.log = Append(@, Event("write", "failed")),
              !.task.pc = "done"]

\* lines 148-150: the job-level handler
RunFail(m) ==
    IF store = "closed" THEN RunRaise(m, "failed")
    ELSE [RunSetStatus(m, "failed", 0) EXCEPT !.task.pc = "done"]

\* A final write that fails the job when a file of it met an error.
RunFinishStrict(m) ==
    IF \E i \in 1..Len(m.task.log) : m.task.log[i].ev = "error"
    THEN RunFail(m)
    ELSE [RunSetStatus(m, "indexed", m.task.total_chunks_indexed) EXCEPT !.task.pc = "done"]

\* A final write that records the number of files.
RunFinishFileCount(m) ==
    [RunSetStatus(m, "indexed",
                  Cardinality({i \in 1..Len(m.task.log) : m.task.log[i].ev = "submit"}))
        EXCEPT !.task.pc = "done"]

\* line 145: set_folder_status(..., "indexed", file_count=total_chunks_indexed);
\* raised inside the try, the exception of a closed store goes to line 148
RunFinish(m) ==
    IF store = "closed" THEN RunFail(m)
    ELSE [RunSetStatus(m, "indexed", m.task.total_chunks_indexed) EXCEPT !.task.pc = "done"]

\* The for loop is over: the final write follows without an await.
RunLoop(m) ==
    IF m.task.files_to_index = <<>> THEN RunFinish(m)
    ELSE [m EXCEPT !.task.pc = "files"]

PathsOf(items) == [i \in 1..Len(items) |-> items[i].path]

\* lines 108-115: enumerate and filter
RunCrawl(m, failing) ==
    LET listing == ListFilesRecursive(m.task.provider_id, m.task.folder_path, failing)
    IN  IF listing.raised
        THEN RunFail([m EXCEPT !.task.log =
                        Append(@, Event("list_raised", m.task.folder_path))])
        ELSE RunLoop([m EXCEPT
                        !.task.log = Append(@, Event("listed", PathsOf(listing.value))),
                        !.task.files_to_index = FilesToIndex(listing.value)])

\* A per-file handler that gives the job up.
RunFileErrorAborts(m, path) ==
    RunFail([m EXCEPT !.task.log = Append(@, Event("error", path)),
                      !.task.files_to_index = <<>>])

\* lines 142-143: the per-file handler prints and the loop goes on
RunFileError(m, path) ==
    RunLoop([m EXCEPT !.task.log = Append(@, Event("error", path)),
                      !.task.files_to_index = Tail(@)])

\* lines 119-140: one file of the loop
RunFile(m, read_fails, add_raises) ==
    LET file_item == Head(m.task.files_to_index)
        content == ReadFileContent(m.task.provider_id, file_item.path, read_fails)
        m1 == [m EXCEPT !.task.log = Append(@, Event("read", file_item.path))]
        skip == RunLoop([m1 EXCEPT !.task.files_to_index = Tail(@),
                                   !.task.log = Append(@, Event("skip", file_item.path))])
    IN  IF content = None \/ content = Some(<<>>) THEN skip
        ELSE LET chunks == ChunkText(content[1])
                 documents == [i \in 1..Len(chunks) |-> DocOf(chunks[i])]
                 metadatas == [i \in 1..Len(chunks) |->
                                  [file_path |-> file_item.path, chunk_number |-> i]]
                 ids == [i \in 1..Len(chunks) |-> ChunkId(file_item.path, i)]
             IN  IF chunks = <<>> THEN skip
                 ELSE IF add_raises THEN RunFileError(m1, file_item.path)
                 ELSE RunLoop(
                    [m1 EXCEPT !.index = IndexChunks(@, documents, metadatas, ids),
                               !.task.total_chunks_indexed = @ + Len(chunks),
                               !.task.files_to_index = Tail(@),
                               !.task.log = Append(@,
                                   Event("submit", [path |-> file_item.path,
                                                    len |-> Len(content[1]),
                                                    ids |-> SeqToSet(ids)]))])

-----------------------------------------------------------------------------
(* Initial state: a fresh installation, the server started *)

AllPaths == {e.path : e \in Entries}

Init ==
    /\ db = {}
    /\ index = <<>>
    /\ tasks = <<>>
    /\ fs = [present |-> AllPaths \cup OutsidePaths,
             len |-> [p \in FilePaths |->
                        IF p = PathB THEN 100 ELSE IF p = PathC THEN 1000 ELSE 600],
             mtime |-> [p \in DirPaths |-> 0]]
    /\ clock = 0
    /\ up = TRUE
    /\ last = [op |-> "none"]
    /\ store = "open"
    /\ nas = [sid |-> Some("sid"), closed |-> FALSE]

-----------------------------------------------------------------------------
(* The environment *)

\* Time passes.
Tick ==
    /\ clock < MaxClock
    /\ clock' = clock + 1
    /\ UNCHANGED <<db, index, tasks, fs, up, last, store, nas>>

\* An entry is added to or removed from a folder: its mtime becomes now.
Touch(dir) ==
    /\ dir \in DirPaths \cap fs.present
    /\ fs.mtime[dir] # clock
    /\ fs' = [fs EXCEPT !.mtime[dir] = clock]
    /\ UNCHANGED <<db, index, tasks, clock, up, last, store, nas>>

\* A file is rewritten with a text of length L.
WriteFile(path, L) ==
    /\ path \in FilePaths \cap fs.present
    /\ fs.len[path] # L
    /\ fs' = [fs EXCEPT !.len[path] = L]
    /\ UNCHANGED <<db, index, tasks, clock, up, last, store, nas>>

\* The storage layer begins to fail: every statement raises sqlite3.Error.
StorageFault ==
    /\ store = "open"
    /\ store' = "failing"
    /\ UNCHANGED <<db, index, tasks, fs, clock, up, last, nas>>

\* The storage layer works again.
StorageRecover ==
    /\ store = "failing"
    /\ store' = "open"
    /\ UNCHANGED <<db, index, tasks, fs, clock, up, last, nas>>

\* The process dies: its background tasks die with it.
Crash ==
    /\ up
    /\ up' = FALSE
    /\ tasks' = [i \in 1..Len(tasks) |->
                    IF tasks[i].pc \in {"done", "raised"} THEN tasks[i]
                    ELSE [tasks[i] EXCEPT !.pc = "dead"]]
    /\ last' = [op |-> "none"]
    /\ UNCHANGED <<db, index, fs, clock, store, nas>>

\* shutdown_event has begun or ended: no request is served any more.
ShuttingDown == nas.closed \/ store = "closed" \/ last.op = "shutdown"

\* shutdown_event has come to its end.
ShutdownEnded == last.op = "shutdown" /\ last.step \in {"closed", "persist_raised"}

\* shutdown_event, lines 51-53: `await provider.close()` for the provider of
\* every session closes its client.
ShutdownSessions ==
    /\ up
    /\ ~ShuttingDown
    /\ nas.sid # None
    /\ nas' = [nas EXCEPT !.closed = TRUE]
    /\ last' = [op |-> "shutdown", step |-> "sessions", persisted |-> FALSE]
    /\ UNCHANGED <<db, index, tasks, fs, clock, up, store>>

\* shutdown_event, lines 54-57, which follow without an await:
\* client.persist(), then index_manager.close().  A Chroma client without
\* the method persist raises there, and the handler ends before the close.
ShutdownStores(persist_raises) ==
    /\ up
    /\ ~ShutdownEnded
    /\ IF nas.sid = None THEN ~ShuttingDown ELSE nas.closed
    /\ store' = IF persist_raises THEN store ELSE "closed"
    /\ last' = [op |-> "shutdown",
                step |-> IF persist_raises THEN "persist_raised" ELSE "closed",
                persisted |-> ~persist_raises]
    /\ UNCHANGED <<db, index, tasks, fs, clock, up, nas>>

\* The process exits once shutdown_event has ended; the tasks still running
\* end with it.
ProcessExit ==
    /\ up
    /\ ShutdownEnded
    /\ up' = FALSE
    /\ tasks' = [i \in 1..Len(tasks) |->
                    IF tasks[i].pc \in {"done", "raised"} THEN tasks[i]
                    ELSE [tasks[i] EXCEPT !.pc = "dead"]]
    /\ last' = [op |-> "exit"]
    /\ UNCHANGED <<db, index, fs, clock, store, nas>>

\* POST /api/login: a provider that has logged in is kept in the sessions; a
\* failed login is answered 500 and its provider dropped.
Login(ok) ==
    /\ up
    /\ nas.sid = None
    /\ nas' = IF ok THEN [sid |-> Some("sid"), closed |-> FALSE] ELSE nas
    /\ last' = [op |-> "login", ok |-> ok]
    /\ UNCHANGED <<db, index, tasks, fs, clock, up, store>>

\* The process starts: index_manager = IndexManager() at import, the
\* sessions empty
Restart ==
    /\ ~up
    /\ up' = TRUE
    /\ store' = "open"
    /\ nas' = [sid |-> None, closed |-> FALSE]
    /\ db' = CleanupStaleIndexingStatuses(db)
    /\ last' = [op |-> "startup",
                stale_folders |-> Cardinality({r \in db : r.status = "indexing"})]
    /\ UNCHANGED <<index, tasks, fs, clock>>

-----------------------------------------------------------------------------
(* Direct calls of the status store *)

SetFolderStatus(provider_id, folder_path, status, file_count) ==
    /\ up
    /\ db' = StoreWrite(db, Upsert(db, provider_id, folder_path, status, file_count))
    /\ UNCHANGED <<index, tasks, fs, clock, up, last, store, nas>>

RemoveFolder(provider_id, folder_path) ==
    /\ up
    /\ db' = StoreWrite(db, DeleteRow(db, provider_id, folder_path))
    /\ db' # db
    /\ UNCHANGED <<index, tasks, fs, clock, up, last, store, nas>>

-----------------------------------------------------------------------------
(* Direct calls of the LocalProvider (providers/local.py).  `denied` says   *)
(* that _get_full_path raised, `acted` is the location the operating system *)
(* was asked to list, stat, read, write or remove.                          *)

\* The absolute path of an entry of fs.present.
FullOf(p) == IF p \in OutsidePaths THEN p ELSE RootDir \o <<"/">> \o p

\* The folder that holds the entry: os.path.dirname
DirName(full_path) ==
    LET comps == NormPath(Split(full_path), <<>>)
    IN  IF Len(comps) <= 1 THEN <<"/">> ELSE JoinAbs(SubSeq(comps, 1, Len(comps) - 1))

\* The folder has gained or lost an entry: its mtime is now.
Touched(mtime, full_path) ==
    LET parent == TreePath(DirName(full_path))
    IN  IF InsideRoot(DirName(full_path)) /\ parent \in DirPaths
        THEN [mtime EXCEPT ![parent] = clock] ELSE mtime

LocalDone(call, path, result, acted) ==
    /\ up
    /\ last' = [op |-> "local", call |-> call, path |-> path,
                denied |-> GetFullPath(path).raised,
                result |-> result, acted |-> acted]
    /\ UNCHANGED <<db, index, tasks, clock, up, store, nas>>

\* list_files
LocalListFiles(path) ==
    LET got == GetFullPath(path)
    IN  /\ IF got.raised THEN LocalDone("list_files", path, Raise("PermissionError"), None)
           ELSE IF ~OsIsDir(got.value)
                THEN LocalDone("list_files", path, Raise("FileNotFoundError"), None)
                ELSE LocalDone("list_files", path, Ret("items"), Some(got.value))
        /\ UNCHANGED fs

\* get_metadata
LocalGetMetadataCall(path) ==
    LET got == GetFullPath(path)
    IN  /\ IF got.raised \/ ~OsExists(got.value)
           THEN LocalDone("get_metadata", path, Ret(None), None)
           ELSE LocalDone("get_metadata", path, Ret("item"), Some(got.value))
        /\ UNCHANGED fs

\* read_file_content
LocalReadFileContent(path) ==
    LET got == GetFullPath(path)
    IN  /\ IF got.raised \/ ~OsIsFile(got.value)
           THEN LocalDone("read_file_content", path, Ret(None), None)
           ELSE LocalDone("read_file_content", path, Ret("content"), Some(got.value))
        /\ UNCHANGED fs

\* list_files_recursive
LocalListFilesRecursiveCall(path) ==
    LET listing == LocalListFilesRecursive(path, {})
    IN  /\ IF listing.raised
           THEN LocalDone("list_files_recursive", path, listing, None)
           ELSE LocalDone("list_files_recursive", path, Ret(PathsOf(listing.value)),
                          Some(GetFullPath(path).value))
        /\ UNCHANGED fs

\* download_file
LocalDownloadFile(path) ==
    LET got == GetFullPath(path)
    IN  /\ IF got.raised
           THEN LocalDone("download_file", path, Raise("PermissionError"), None)
           ELSE IF ~OsIsFile(got.value)
                THEN LocalDone("download_file", path, Raise("FileNotFoundError"), None)
                ELSE LocalDone("download_file", path, Ret("bytes"), Some(got.value))
        /\ UNCHANGED fs

\* upload_file: the file is written under its folder, made if missing; every
\* exception gives False.  L is the length of what is uploaded.
LocalUploadFile(path, L) ==
    LET got == GetFullPath(path)
        full_path == got.value
        loc == IF InsideRoot(full_path) THEN TreePath(full_path) ELSE full_path
        made == {p \in DirPaths \cup OutsideDirs : StartsWith(full_path, FullOf(p) \o <<"/">>)}
    IN  IF got.raised \/ OsIsDir(full_path) \/ loc \notin FilePaths \cup OutsideFiles
        THEN /\ LocalDone("upload_file", path, Ret(FALSE), None)
             /\ UNCHANGED fs
        ELSE /\ LocalDone("upload_file", path, Ret(TRUE), Some(full_path))
             /\ fs' = [fs EXCEPT
                        !.present = @ \cup {loc} \cup made,
                        !.len = IF loc \in FilePaths THEN [@ EXCEPT ![loc] = L] ELSE @,
                        !.mtime = IF OsExists(full_path) THEN @ ELSE Touched(@, full_path)]

\* delete_item: shutil.rmtree of a folder, os.remove of a file
LocalDeleteItem(path) ==
    LET got == GetFullPath(path)
        full_path == got.value
    IN  IF got.raised \/ ~OsExists(full_path)
        THEN /\ LocalDone("delete_item", path, Ret(FALSE), None)
             /\ UNCHANGED fs
        ELSE /\ LocalDone("delete_item", path, Ret(TRUE), Some(full_path))
             /\ fs' = [fs EXCEPT
                        !.present = {p \in @ : /\ FullOf(p) # full_path
                                               /\ ~StartsWith(FullOf(p), full_path \o <<"/">>)},
                        !.mtime = Touched(@, full_path)]

-----------------------------------------------------------------------------
(* Direct calls of the SynologyAPIProvider (providers/synology.py).         *)
(* `requests` are the requests the call sent to the NAS, each with the _sid *)
(* parameter it carried; `answer` is what the NAS does with a request that  *)
(* carries a session: "ok" or "refused".  A request without a session is    *)
(* refused.                                                                 *)

Req(api, method) == [api |-> api, method |-> method, sid |-> nas.sid]

\* What the NAS answers to a request of this provider.
Answer(answer) == IF nas.sid = None THEN "refused" ELSE answer

SynoDone(call, path, result, requests) ==
    /\ up
    /\ ~nas.closed
    /\ last' = [op |-> "nas", call |-> call, path |-> path,
                sid |-> nas.sid, result |-> result, requests |-> requests]
    /\ UNCHANGED <<db, index, tasks, clock, up, store, nas>>

\* A provider is made and not logged in: SynologyAPIProvider(...), _sid None
SynoConstruct ==
    /\ up
    /\ nas.sid # None
    /\ nas' = [sid |-> None, closed |-> FALSE]
    /\ last' = [op |-> "construct"]
    /\ UNCHANGED <<db, index, tasks, fs, clock, up, store>>

\* list_files: _api_request raises PermissionError without a session, and
\* for a request the NAS refuses
SynoListFilesCall(path, answer) ==
    /\ IF nas.sid = None
       THEN SynoDone("list_files", path, Raise("PermissionError"), {})
       ELSE SynoDone("list_files", path,
                     IF answer = "ok" /\ IsDir(path) THEN Ret("items")
                     ELSE Raise("PermissionError"),
                     {Req("SYNO.FileStation.List", "list")})
    /\ UNCHANGED fs

\* get_metadata: the PermissionError of _api_request gives None
SynoGetMetadataCall(path, answer) ==
    /\ IF nas.sid = None
       THEN SynoDone("get_metadata", path, Ret(None), {})
       ELSE SynoDone("get_metadata", path,
                     IF answer = "ok" /\ Exists(path) THEN Ret("item") ELSE Ret(None),
                     {Req("SYNO.FileStation.List", "getinfo")})
    /\ UNCHANGED fs

\* list_files_recursive: get_metadata, then list_files for a folder; every
\* exception is caught per path
SynoListFilesRecursiveCall(path, answer) ==
    /\ IF nas.sid = None
       THEN SynoDone("list_files_recursive", path, Ret(<<>>), {})
       ELSE SynoDone("list_files_recursive", path,
                     Ret(PathsOf(SynoListFilesRecursive(
                            path, IF answer = "ok" THEN {} ELSE {path}).value)),
                     {Req("SYNO.FileStation.List", "getinfo")}
                        \cup IF answer = "ok" /\ IsDir(path)
                             THEN {Req("SYNO.FileStation.List", "list")} ELSE {})
    /\ UNCHANGED fs

\* read_file_content: the request is sent by client.stream with
\* "_sid": self._sid, not by _api_request; every exception gives None
SynoReadFileContent(path, answer) ==
    /\ SynoDone("read_file_content", path,
                IF Answer(answer) = "ok" /\ Exists(path) /\ ~IsDir(path)
                THEN Ret("content") ELSE Ret(None),
                {Req("SYNO.FileStation.Download", "download")})
    /\ UNCHANGED fs

\* download_file: sent by client.stream as well; the exception is raised on
SynoDownloadFile(path, answer) ==
    /\ SynoDone("download_file", path,
                IF Answer(answer) = "ok" /\ Exists(path) /\ ~IsDir(path)
                THEN Ret("bytes") ELSE Raise("HTTPStatusError"),
                {Req("SYNO.FileStation.Download", "download")})
    /\ UNCHANGED fs

\* upload_file: sent by client.post with "_sid": self._sid; False when the
\* NAS does not report success.  L is the length of what is uploaded.
SynoUploadFile(path, L, answer) ==
    /\ SynoDone("upload_file", path, Ret(Answer(answer) = "ok" /\ path \in FilePaths),
                {Req("SYNO.FileStation.Upload", "upload")})
    /\ fs' = IF Answer(answer) = "ok" /\ path \in FilePaths
             THEN [fs EXCEPT
                     !.present = @ \cup {path}
                         \cup {p \in DirPaths : StartsWith(path, p \o <<"/">>)},
                     !.len = [@ EXCEPT ![path] = L]]
             ELSE fs

\* delete_item: _api_request; every exception gives False
SynoDeleteItem(path, answer) ==
    /\ IF nas.sid = None
       THEN SynoDone("delete_item", path, Ret(FALSE), {})
       ELSE SynoDone("delete_item", path, Ret(answer = "ok" /\ Exists(path)),
                     {Req("SYNO.FileStation.Delete", "delete")})
    /\ fs' = IF nas.sid # None /\ answer = "ok" /\ Exists(path)
             THEN [fs EXCEPT !.present =
                      {p \in @ : p # path /\ ~StartsWith(p, path \o <<"/">>)}]
             ELSE fs

\* index_manager.get_folder_status(provider_id, folder_path)
GetStatusCall(provider_id, folder_path) ==
    /\ up
    /\ store # "closed"
    /\ last' = [op |-> "get_folder_status", provider_id |-> provider_id,
                folder_path |-> folder_path,
                result |-> GetFolderStatus(db, provider_id, folder_path)]
    /\ UNCHANGED <<db, index, tasks, fs, clock, up, store, nas>>

-----------------------------------------------------------------------------
(* Request handlers and the background task (main.py) *)

Active(t) == t.pc \in {"queued", "crawl", "files"}

\* get_provider_and_id: the default provider, or the provider of a session
Authorized(provider_id) == IsLocal(provider_id) \/ nas.sid # None

NoActiveTask == \A i \in 1..Len(tasks) : ~Active(tasks[i])

\* A start-index that is refused while a run for the same folder is going on.
StartIndexExclusive(provider_id, folder_path) ==
    /\ up
    /\ Authorized(provider_id)
    /\ Len(tasks) < MaxRuns
    /\ \A i \in 1..Len(tasks) :
          ~(/\ Active(tasks[i])
            /\ tasks[i].provider_id = provider_id
            /\ tasks[i].folder_path = folder_path)
    /\ tasks' = Append(tasks, NewTask(provider_id, folder_path))
    /\ last' = [op |-> "start_index", provider_id |-> provider_id,
                folder_path |-> folder_path]
    /\ UNCHANGED <<db, index, fs, clock, up, store, nas>>

\* POST /api/index/folder: background_tasks.add_task(do_index_folder, ...)
StartIndex(provider_id, folder_path) ==
    /\ up
    /\ Authorized(provider_id)
    /\ Len(tasks) < MaxRuns
    /\ tasks' = Append(tasks, NewTask(provider_id, folder_path))
    /\ last' = [op |-> "start_index", provider_id |-> provider_id,
                folder_path |-> folder_path]
    /\ UNCHANGED <<db, index, fs, clock, up, store, nas>>

Commit(t, m) ==
    /\ db' = m.db
    /\ index' = m.index
    /\ tasks' = [tasks EXCEPT ![t] = m.task]
    /\ UNCHANGED <<fs, clock, up, last, store, nas>>

\* The task starts running.  LocalProvider.list_files_recursive never
\* suspends, so with it the enumeration belongs to the same step.
PipeStart(t, failing) ==
    /\ up
    /\ t \in 1..Len(tasks)
    /\ tasks[t].pc = "queued"
    /\ LET m == RunBegin(Run(tasks[t], db, index))
       IN  Commit(t, IF IsLocal(tasks[t].provider_id) THEN RunCrawl(m, failing) ELSE m)

\* The remote enumeration returns.
PipeCrawl(t, failing) ==
    /\ up
    /\ t \in 1..Len(tasks)
    /\ tasks[t].pc = "crawl"
    /\ Commit(t, RunCrawl(Run(tasks[t], db, index), failing))

\* The read of the next file returns; its chunks are submitted.
PipeFile(t, read_fails, add_raises) ==
    /\ up
    /\ t \in 1..Len(tasks)
    /\ tasks[t].pc = "files"
    /\ Commit(t, RunFile(Run(tasks[t], db, index), read_fails, add_raises))

\* A deletion that also ends the runs going on for the folder.
DeleteIndexCancelling(provider_id, folder_path) ==
    /\ up
    /\ Authorized(provider_id)
    /\ LET ids_to_delete == {id \in DOMAIN index : StartsWith(id, folder_path)}
       IN  /\ db' = {r \in db : ~HasKey(r, provider_id, folder_path)}
           /\ index' = [id \in DOMAIN index \ ids_to_delete |-> index[id]]
           /\ last' = [op |-> "delete_index", provider_id |-> provider_id,
                       folder_path |-> folder_path,
                       deleted_count |-> Cardinality(ids_to_delete)]
    /\ tasks' = [i \in 1..Len(tasks) |->
                    IF tasks[i].folder_path = folder_path /\ tasks[i].pc # "done"
                    THEN [tasks[i] EXCEPT !.pc = "dead"] ELSE tasks[i]]
    /\ UNCHANGED <<fs, clock, up, store, nas>>

\* DELETE /api/index/folder
DeleteIndex(provider_id, folder_path) ==
    /\ up
    /\ Authorized(provider_id)
    /\ LET ids_to_delete == IdsToDelete(index, folder_path)
       IN  /\ db' = StoreWrite(db, DeleteRow(db, provider_id, folder_path))
           /\ index' = CollectionDelete(index, ids_to_delete)
           /\ last' = [op |-> "delete_index", provider_id |-> provider_id,
                       folder_path |-> folder_path,
                       deleted_count |-> Cardinality(ids_to_delete)]
    /\ UNCHANGED <<tasks, fs, clock, up, store, nas>>

\* The comparison of lines 235-241.
IsOutdated(last_modified, last_indexed_at) ==
    FromTimestamp(last_modified) > FromIsoFormat(last_indexed_at)

\* A reconciliation that asks the provider about every stored row.
ConsultsAlways(db_statuses, path) == path \in DOMAIN db_statuses

\* lines 225-230: the provider is asked about a path only in the else branch,
\* the path having a row whose status is indexed.
ConsultsMetadata(db_statuses, path) ==
    path \in DOMAIN db_statuses /\ db_statuses[path].status = "indexed"

\* A reconciliation that reports failed when the lookup raises and indexed
\* when there is no metadata.
FinalStatusPessimistic(db_statuses, provider_id, path, failing, raising) ==
    IF path \notin DOMAIN db_statuses THEN "not_indexed"
    ELSE IF db_statuses[path].status # "indexed" THEN db_statuses[path].status
    ELSE IF path \in raising THEN "failed"
    ELSE "indexed"

\* One path of the loop of get_folder_statuses; `failing` are the paths whose
\* metadata request fails, `raising` those whose lookup raises.
FinalStatus(db_statuses, provider_id, path, failing, raising) ==
    IF path \notin DOMAIN db_statuses THEN "not_indexed"
    ELSE IF ~ConsultsMetadata(db_statuses, path) THEN db_statuses[path].status
    ELSE IF path \in raising \/ GetMetadata(provider_id, path, failing).raised
         THEN "indexed"
    ELSE LET folder_meta == GetMetadata(provider_id, path, failing).value
         IN  IF folder_meta = None THEN "not_indexed"
             ELSE IF IsOutdated(folder_meta[1].last_modified,
                                db_statuses[path].last_indexed_at)
                  THEN "outdated" ELSE "indexed"

\* A batch-status that stores what it has computed.
BatchStatusStoring(provider_id, folder_paths, failing, raising) ==
    /\ up
    /\ Authorized(provider_id)
    /\ LET db_statuses == GetMultipleFolderStatuses(db, provider_id, folder_paths)
           final_statuses == [p \in SeqToSet(folder_paths) |->
                                FinalStatus(db_statuses, provider_id, p, failing, raising)]
       IN  /\ last' = [op |-> "status", provider_id |-> provider_id,
                       folder_paths |-> folder_paths,
                       failing |-> failing, raising |-> raising,
                       consulted |-> {p \in SeqToSet(folder_paths) :
                                         ConsultsMetadata(db_statuses, p)},
                       final_statuses |-> final_statuses]
           /\ db' = {IF r.provider_id = provider_id /\ r.folder_path \in SeqToSet(folder_paths)
                     THEN [r EXCEPT !.status = final_statuses[r.folder_path]] ELSE r :
                     r \in db}
    /\ UNCHANGED <<index, tasks, fs, clock, up, store, nas>>

\* POST /api/index/status; consulted are the paths provider.get_metadata was
\* called for, failing and raising what the lookups of this request do.
BatchStatus(provider_id, folder_paths, failing, raising) ==
    /\ up
    /\ Authorized(provider_id)
    /\ LET db_statuses == GetMultipleFolderStatuses(db, provider_id, folder_paths)
       IN  last' = [op |-> "status", provider_id |-> provider_id,
                    folder_paths |-> folder_paths,
                    failing |-> failing, raising |-> raising,
                    consulted |-> {p \in SeqToSet(folder_paths) :
                                      ConsultsMetadata(db_statuses, p)},
                    final_statuses |->
                        [p \in SeqToSet(folder_paths) |->
                            FinalStatus(db_statuses, provider_id, p, failing, raising)]]
    /\ UNCHANGED <<db, index, tasks, fs, clock, up, store, nas>>

\* chunk_text(text) called on the text of length L
ChunkCall(L) ==
    /\ last.op = "none"
    /\ last' = [op |-> "chunk_text", text |-> Text(L), chunks |-> ChunkText(Text(L))]
    /\ UNCHANGED <<db, index, tasks, fs, clock, up, store, nas>>

-----------------------------------------------------------------------------
(* SpecChunk: chunk_text on every text up to MaxTextLen characters *)

NextChunk == \E L \in 0..MaxTextLen : ChunkCall(L)

SpecChunk == Init /\ [][NextChunk]_vars

\* The characters text[from:to] of Python (0-based, end excluded), to <= len.
Chars(text, from, to) == [k \in 1..(to - from) |-> text[from + k]]

\* The closed form of chunk_text: for i = 0, 1, ... while 450*i < L the chunk
\* text[450*i : 450*i+500] and no other; every character is in some chunk;
\* the empty text gives no chunk.
ChunksAsClaimed(text, chunks) ==
    LET L == Len(text)
        N == IF L = 0 THEN 0 ELSE ((L - 1) \div 450) + 1
    IN  /\ Len(chunks) = N
        /\ \A i \in 0..(N - 1) :
              /\ 450 * i < L
              /\ chunks[i + 1] = Chars(text, 450 * i, Min(450 * i + 500, L))
        /\ \A p \in 1..L : \E i \in 1..N :
              LET k == p - 450 * (i - 1)
              IN  k \in 1..Len(chunks[i]) /\ chunks[i][k] = text[p]
        /\ (L = 0 => chunks = <<>>)

\* C6 as claimed: the closed form, and only the final chunk may be shorter
\* than 500 characters.
C6_Original ==
    last.op = "chunk_text" =>
        /\ ChunksAsClaimed(last.text, last.chunks)
        /\ \A i \in 1..(Len(last.chunks) - 1) : Len(last.chunks[i]) = 500

\* C6 amended: the closed form, and a chunk is shorter than 500 characters
\* only if it runs to the end of the text (the last chunk, and the one
\* before it when fewer than 50 characters follow its overlap); every chunk
\* but the last holds more than 450 characters.
C6_Chunking ==
    last.op = "chunk_text" =>
        /\ ChunksAsClaimed(last.text, last.chunks)
        /\ \A i \in 1..Len(last.chunks) :
              Len(last.chunks[i]) < 500 =>
                  /\ last.chunks[i][Len(last.chunks[i])] = last.text[Len(last.text)]
                  /\ i >= Len(last.chunks) - 1
        /\ \A i \in 1..(Len(last.chunks) - 1) : Len(last.chunks[i]) > 450

\* L = 960: three chunks, chars[0:500], chars[450:950] and chars[900:960].
C6_Witness ==
    /\ last.op = "chunk_text"
    /\ Len(last.text) = 960
    /\ last.chunks = <<Chars(last.text, 0, 500), Chars(last.text, 450, 950),
                       Chars(last.text, 900, 960)>>

-----------------------------------------------------------------------------
(* SpecStore: the status store called directly, with crashes and restarts *)

StoreKeys == {<<"local", D>>, <<"nas", D>>}

StoreCounts == {0, MaxCount}

NextStore ==
    \/ \E k \in StoreKeys, s \in Statuses, n \in StoreCounts :
          SetFolderStatus(k[1], k[2], s, n)
    \/ \E k \in StoreKeys : RemoveFolder(k[1], k[2])
    \/ Tick
    \/ Crash
    \/ Restart

SpecStore == Init /\ [][NextStore]_vars

\* C1: a start of the process (the construction of IndexManager) leaves no
\* row with status indexing: every row that was indexing is now failed with
\* nothing else changed, every other row is exactly as it was, and no row
\* appears.
C1_CrashRecovery ==
    [][(~up /\ up') =>
          /\ \A r \in db' : r.status # "indexing"
          /\ \A r \in db :
                IF r.status = "indexing"
                THEN [r EXCEPT !.status = "failed"] \in db'
                ELSE r \in db'
          /\ Cardinality(db') = Cardinality(db)]_vars

\* After a start that found one interrupted row: that row is failed and an
\* indexed row is still there.
C1_Witness ==
    /\ up
    /\ last.op = "startup"
    /\ last.stale_folders = 1
    /\ \E r \in db : r.status = "failed" /\ r.file_count = 1
    /\ \E r \in db : r.status = "indexed"

UniqueKeys(rows) ==
    \A r1, r2 \in rows :
        HasKey(r1, r2.provider_id, r2.folder_path) => r1 = r2

\* C8: at most one row exists per (owner, folder), and right after
\* set_folder_status(owner, folder, s, n) get_folder_status(owner, folder)
\* returns a row with status s, file_count n and last_indexed_at the time of
\* the write, whether or not a row existed before.
C8_UpsertRoundTrip ==
    /\ []UniqueKeys(db)
    /\ [][\A k \in StoreKeys, s \in Statuses, n \in StoreCounts :
            SetFolderStatus(k[1], k[2], s, n) =>
                LET got == GetFolderStatus(db', k[1], k[2])
                IN  /\ got # None
                    /\ got[1].status = s
                    /\ got[1].file_count = n
                    /\ FromIsoFormat(got[1].last_indexed_at) = Now]_vars

\* A row written over at microsecond 1 beside a row written at microsecond 0.
C8_Witness ==
    /\ \E r \in db : r.last_indexed_at = AdaptDatetime(1) /\ r.status = "outdated"
    /\ \E r \in db : r.last_indexed_at = AdaptDatetime(0)

-----------------------------------------------------------------------------
(* SpecPipe: pipeline runs one after the other, on either provider, with   *)
(* every outcome of the enumeration, the reads and the submissions         *)

PipeFolders == {D, D2, X}

\* the folders that cannot be read during one enumeration
CrawlFailures == {{}, {D}, {PathS}}

\* the lengths a file is rewritten to
WrittenLens == {0, 600}

PipeStep ==
    \/ \E t \in 1..Len(tasks), failing \in CrawlFailures : PipeStart(t, failing)
    \/ \E t \in 1..Len(tasks), failing \in CrawlFailures : PipeCrawl(t, failing)
    \/ \E t \in 1..Len(tasks), read_fails, add_raises \in BOOLEAN :
          PipeFile(t, read_fails, add_raises)

NextPipe ==
    \/ \E o \in ProviderIds, f \in PipeFolders :
          Len(tasks) < 2 /\ NoActiveTask /\ StartIndex(o, f)
    \/ PipeStep
    \/ Tick
    \/ \E L \in WrittenLens : NoActiveTask /\ WriteFile(PathA, L)
    \/ \E o \in ProviderIds, f \in PipeFolders :
          NoActiveTask /\ BatchStatus(o, <<f>>, {}, {})

SpecPipe == Init /\ [][NextPipe]_vars

\* SpecRun: one run.  The event loop resumes a background task whenever the
\* call it awaits has returned, and every call returns.
NextRun ==
    \/ \E o \in ProviderIds, f \in PipeFolders : Len(tasks) < 1 /\ StartIndex(o, f)
    \/ PipeStep
    \/ \E p \in {PathA, PathE}, L \in WrittenLens : tasks = <<>> /\ WriteFile(p, L)

\* A task that has not ended can take its next step: ENABLED <<PipeStep>>_vars.
PipeEnabled == up /\ \E t \in 1..Len(tasks) : Active(tasks[t])

\* Weak fairness of PipeStep, WF_vars(PipeStep), with its enabling condition
\* written as the state predicate PipeEnabled.
SpecRun ==
    /\ Init /\ [][NextRun]_vars
    /\ ([]<>(~PipeEnabled) \/ []<><<PipeStep>>_vars)


\* What a run has done, read off its log.
EventsOf(log, ev) == SelectSeq(log, LAMBDA e : e.ev = ev)

ArgsOf(log, ev) == [i \in 1..Len(EventsOf(log, ev)) |-> EventsOf(log, ev)[i].arg]

WritesOf(t) == ArgsOf(t.log, "write")

Listed(t) == EventsOf(t.log, "listed") # <<>>

\* The row of a task's folder.
RowOf(rows, t) == GetFolderStatus(rows, t.provider_id, t.folder_path)

\* C2, the order of one run: nothing is done before the write of indexing;
\* a running task has written indexing only and its row says indexing; a
\* finished task has written indexing and then one terminal status, indexed
\* or failed, as the last thing it did, and its row holds that status.
C2_RunOrder ==
    \A i \in 1..Len(tasks) :
        LET t == tasks[i]
            writes == WritesOf(t)
        IN  /\ t.pc = "queued" => t.log = <<>>
            /\ t.log # <<>> => t.log[1] = Event("write", "indexing")
            /\ t.pc \in {"crawl", "files"} =>
                  /\ writes = <<"indexing">>
                  /\ RowOf(db, t) # None /\ RowOf(db, t)[1].status = "indexing"
            /\ t.pc = "done" =>
                  /\ Len(writes) = 2
                  /\ writes[1] = "indexing"
                  /\ writes[2] \in {"indexed", "failed"}
                  /\ t.log[Len(t.log)] = Event("write", writes[2])
                  /\ (i = Len(tasks) =>
                        RowOf(db, t) # None /\ RowOf(db, t)[1].status = writes[2])

\* C2: the order of every run, and every run that is started makes its
\* terminal write, after which no row stays indexing.
C2_SingleRun ==
    /\ []C2_RunOrder
    /\ (tasks # <<>>) ~> (tasks # <<>> /\ tasks[1].pc = "done")
    /\ (\E r \in db : r.status = "indexing") ~> (\A r \in db : r.status # "indexing")

\* A run that ended failed on the job-level handler.
C2_Witness ==
    /\ Len(tasks) = 1
    /\ tasks[1].pc = "done"
    /\ tasks[1].log = <<Event("write", "indexing"), Event("list_raised", X),
                        Event("write", "failed")>>
    /\ \A r \in db : r.status = "failed"

\* C3 as claimed: a run on a folder that does not exist ends with the
\* folder's status failed, whichever the provider.
C3_EnumerationFailure ==
    \A i \in 1..Len(tasks) :
        (tasks[i].pc = "done" /\ ~IsDir(tasks[i].folder_path)) =>
            /\ WritesOf(tasks[i])[2] = "failed"
            /\ (i = Len(tasks) => RowOf(db, tasks[i])[1].status = "failed")

\* The files a listing leaves to index, by what the entries are: no folder,
\* the name ending in a listed extension.
KeptPaths(paths) ==
    SelectSeq(paths, LAMBDA p : /\ ~EntryAt(p).is_directory
                                /\ p[Len(p)] \in TextExtensions)

\* The number of chunks of a text of length L.
NumChunks(L) == IF L = 0 THEN 0 ELSE ((L - 1) \div 450) + 1

\* The outcome events of a run: one per file read.
Outcomes(log) == SelectSeq(log, LAMBDA e : e.ev \in {"skip", "error", "submit"})

OutcomePath(e) == IF e.ev = "submit" THEN e.arg.path ELSE e.arg

\* C4: once the enumeration has returned the run never writes failed; it
\* reads the kept files in order whatever happened to the files before, each
\* read ending in a skip, a caught error or a submission of all the chunks of
\* the text read; and it ends indexed.
C4_PerFileSkip ==
    \A i \in 1..Len(tasks) :
        LET t == tasks[i]
            kept == KeptPaths(ArgsOf(t.log, "listed")[1])
            reads == ArgsOf(t.log, "read")
            outs == Outcomes(t.log)
        IN  Listed(t) =>
              /\ \A k \in 1..Len(WritesOf(t)) : WritesOf(t)[k] # "failed"
              /\ Len(reads) <= Len(kept)
              /\ reads = SubSeq(kept, 1, Len(reads))
              /\ Len(outs) = Len(reads)
              /\ \A k \in 1..Len(outs) :
                    /\ OutcomePath(outs[k]) = reads[k]
                    /\ outs[k].ev = "submit" =>
                          /\ outs[k].arg.len > 0
                          /\ outs[k].arg.ids =
                                {ChunkId(reads[k], n) : n \in 1..NumChunks(outs[k].arg.len)}
                          /\ outs[k].arg.ids \subseteq DOMAIN index
              /\ (t.pc = "done" =>
                    /\ reads = kept
                    /\ WritesOf(t) = <<"indexing", "indexed">>)
              /\ (t.pc = "files" => Len(reads) < Len(kept))

\* A run over "d2" whose first file failed in the submission and whose second
\* file, in the subfolder, was submitted.
C4_Witness ==
    \E i \in 1..Len(tasks) :
        /\ tasks[i].pc = "done"
        /\ Len(Outcomes(tasks[i].log)) = 2
        /\ Outcomes(tasks[i].log)[1] = Event("error", PathE)
        /\ Outcomes(tasks[i].log)[2].ev = "submit"
        /\ WritesOf(tasks[i])[2] = "indexed"

\* The chunk count a run should record: the chunks of every file submitted.
ExpectedCount(log) ==
    LET outs == Outcomes(log)
    IN  SumOver({k \in 1..Len(outs) : outs[k].ev = "submit"},
                [k \in 1..Len(outs) |->
                    IF outs[k].ev = "submit" THEN NumChunks(outs[k].arg.len) ELSE 0])

\* C5: the step that ends a run indexed stores, as the folder's file_count,
\* the number of chunks of the files submitted, which are the kept files of
\* the listing (no folder, a listed extension) without those skipped or
\* failed; and a batch-status that follows, the folder unmodified, reports
\* indexed.
C5_ChunkCount ==
    /\ [][\A i \in 1..Len(tasks) :
            (/\ tasks[i].pc # "done"
             /\ tasks'[i].pc = "done"
             /\ WritesOf(tasks'[i])[2] = "indexed") =>
                LET t == tasks'[i]
                    outs == Outcomes(t.log)
                IN  /\ RowOf(db', t) # None
                    /\ RowOf(db', t)[1].status = "indexed"
                    /\ RowOf(db', t)[1].file_count = ExpectedCount(t.log)
                    /\ [k \in 1..Len(outs) |-> OutcomePath(outs[k])]
                          = KeptPaths(ArgsOf(t.log, "listed")[1])]_vars
    /\ [](last.op = "status" =>
            \A p \in DOMAIN last.final_statuses :
                LET row == GetFolderStatus(db, last.provider_id, p)
                IN  (row # None /\ row[1].status = "indexed" /\ Exists(p)) =>
                        last.final_statuses[p] = "indexed")

\* The run over "d" (a.txt of 600 characters, b.bin of 100) has recorded 2
\* chunks and the batch-status that follows says indexed.
C5_Witness ==
    /\ last.op = "status"
    /\ last.provider_id = "local"
    /\ last.final_statuses = (D :> "indexed")
    /\ RowOf(db, [provider_id |-> "local", folder_path |-> D])[1].file_count = 2
    /\ Len(tasks) = 1
    /\ ArgsOf(tasks[1].log, "listed")[1] = <<PathA, PathB>>
    /\ fs.len[PathA] = 600

-----------------------------------------------------------------------------
(* SpecTwice: runs one after the other over folders nobody rewrites *)

TwiceFolders == {D, D2}

NextTwice ==
    \/ \E o \in ProviderIds, f \in TwiceFolders : NoActiveTask /\ StartIndex(o, f)
    \/ PipeStep

SpecTwice == Init /\ [][NextTwice]_vars

SubmitsOf(t) == SeqToSet(EventsOf(t.log, "submit"))

SubmittedPaths(t) == {e.arg.path : e \in SubmitsOf(t)}

SubmittedIds(t) == UNION {e.arg.ids : e \in SubmitsOf(t)}

\* What a run did with each file it read.
OutcomeKinds(t) ==
    [k \in 1..Len(Outcomes(t.log)) |->
        <<Outcomes(t.log)[k].ev, OutcomePath(Outcomes(t.log)[k])>>]

SameFolder(s, t) ==
    s.provider_id = t.provider_id /\ s.folder_path = t.folder_path

\* C7, the ids: every chunk in the index has the id made of its file path and
\* its chunk number, counted from 1; two finished runs over the same folder,
\* the files unchanged and the same files read and submitted, submitted the
\* same set of ids and counted the same number of chunks, which is the count
\* the folder's row holds after the later run.
C7_SameIds ==
    /\ \A id \in DOMAIN index :
          /\ index[id].metadata.chunk_number >= 1
          /\ id = index[id].metadata.file_path
                     \o <<"-chunk-", index[id].metadata.chunk_number>>
    /\ \A i, j \in 1..Len(tasks) :
          (/\ i < j
           /\ SameFolder(tasks[i], tasks[j])
           /\ tasks[i].pc = "done" /\ tasks[j].pc = "done"
           /\ OutcomeKinds(tasks[i]) = OutcomeKinds(tasks[j])) =>
              /\ SubmittedIds(tasks[i]) = SubmittedIds(tasks[j])
              /\ tasks[i].total_chunks_indexed = tasks[j].total_chunks_indexed
              /\ (j = Len(tasks) /\ WritesOf(tasks[j])[2] = "indexed" =>
                    RowOf(db, tasks[j])[1].file_count = tasks[i].total_chunks_indexed)

\* C7: the ids as above, and a run that submits a file an earlier run over
\* the same folder has submitted leaves the index as it was: the same ids
\* with the same documents.
C7_IdempotentChunkIds ==
    /\ []C7_SameIds
    /\ [][\A j \in 1..Len(tasks) :
            (/\ Len(EventsOf(tasks'[j].log, "submit")) > Len(EventsOf(tasks[j].log, "submit"))
             /\ \E i \in 1..(j - 1) :
                   /\ SameFolder(tasks[i], tasks[j])
                   /\ Head(tasks[j].files_to_index).path \in SubmittedPaths(tasks[i]))
                => index' = index]_vars

\* Two runs over "d2" that both submitted e.txt (2 chunks) and c.py (3).
C7_Witness ==
    /\ Len(tasks) >= 2
    /\ SameFolder(tasks[1], tasks[2])
    /\ tasks[1].pc = "done" /\ tasks[2].pc = "done"
    /\ SubmittedPaths(tasks[1]) = {PathE, PathC}
    /\ SubmittedPaths(tasks[2]) = {PathE, PathC}
    /\ Cardinality(SubmittedIds(tasks[2])) = 5
    /\ Cardinality(DOMAIN index) = 5
    /\ tasks[2].total_chunks_indexed = 5

-----------------------------------------------------------------------------
(* SpecDelete: folders are indexed, their indexes deleted, statuses asked *)

DeleteFolders == {D, D2}

\* A step of a run that meets no failure.
PipeStepOk ==
    \/ \E t \in 1..Len(tasks) : PipeStart(t, {})
    \/ \E t \in 1..Len(tasks) : PipeCrawl(t, {})
    \/ \E t \in 1..Len(tasks) : PipeFile(t, FALSE, FALSE)

NextDelete ==
    \/ \E o \in ProviderIds, f \in DeleteFolders : NoActiveTask /\ StartIndex(o, f)
    \/ PipeStepOk
    \/ \E o \in ProviderIds, f \in DeleteFolders : NoActiveTask /\ DeleteIndex(o, f)
    \/ \E o \in ProviderIds, f \in DeleteFolders :
          NoActiveTask /\ BatchStatus(o, <<f>>, {}, {})

SpecDelete == Init /\ [][NextDelete]_vars

\* The file lies in the folder, at any depth.
InFolder(file_path, folder_path) == StartsWith(file_path, folder_path \o <<"/">>)

\* C9 as claimed: with no run going on, delete-index of a folder removes
\* every chunk of the files in the folder and no chunk of a file outside it,
\* counts the chunks it removed, and leaves the folder without a row, so that
\* a batch-status then reports not_indexed.
C9_FolderScopedDeletion ==
    [][\A o \in ProviderIds, f \in DeleteFolders :
          (NoActiveTask /\ DeleteIndex(o, f)) =>
              LET removed == DOMAIN index \ DOMAIN index'
              IN  /\ \A id \in DOMAIN index :
                        InFolder(index[id].metadata.file_path, f) => id \in removed
                  /\ \A id \in removed : InFolder(index[id].metadata.file_path, f)
                  /\ last'.deleted_count = Cardinality(removed)
                  /\ FinalStatus(GetMultipleFolderStatuses(db', o, <<f>>), o, f, {}, {})
                        = "not_indexed"]_vars

-----------------------------------------------------------------------------
(* SpecRecon: status rows are written, the folder changes, statuses asked *)

NextRecon ==
    \/ \E o \in ProviderIds, st \in WrittenStatuses, n \in StoreCounts :
          SetFolderStatus(o, D, st, n)
    \/ Tick
    \/ Touch(D)
    \/ \E o \in ProviderIds, failing \in {{}, {D}} : BatchStatus(o, <<D>>, failing, {})

SpecRecon == Init /\ [][NextRecon]_vars

\* C10 as claimed, for the local provider, whose last_modified is the float
\* of os.path.getmtime: the folder's row saying indexed at T0 and the
\* folder's metadata saying T1, batch-status reports outdated if T1 > T0 and
\* indexed if not.  fs.mtime is in half microseconds, T0 in microseconds.
C10_Staleness ==
    [][BatchStatus("local", <<D>>, {}, {}) =>
          LET row == GetFolderStatus(db, "local", D)
              T0  == 2 * FromIsoFormat(row[1].last_indexed_at)
              T1  == LocalGetMetadata(D).value[1].last_modified
          IN  (row # None /\ row[1].status = "indexed" /\ Exists(D)) =>
                 last'.final_statuses[D] = (IF T1 > T0 THEN "outdated" ELSE "indexed")]_vars

-----------------------------------------------------------------------------
(* SpecStatus: rows of every status, one run of the remote provider over
   "d", and batch-status requests of several paths with failing lookups *)

StatusKeys == {<<"local", D>>, <<"nas", D>>, <<"local", X>>}

StatusRequests == {<<>>, <<D, X>>, <<X, D2, D>>}

\* the statuses a row is given
StoredStatuses == {"indexed", "indexing", "failed", "outdated"}

\* <<failing, raising>>: every lookup answers, the request for "d" fails,
\* the lookup of "d" raises.
LookupCases == {<<{}, {}>>, <<{D}, {}>>, <<{}, {D}>>}

NextStatus ==
    \/ \E k \in StatusKeys, s \in StoredStatuses :
          NoActiveTask /\ SetFolderStatus(k[1], k[2], s, 0)
    \/ tasks = <<>> /\ StartIndex("nas", D)
    \/ PipeStepOk
    \/ \E o \in ProviderIds, paths \in StatusRequests, c \in LookupCases :
          NoActiveTask /\ BatchStatus(o, paths, c[1], c[2])

SpecStatus == Init /\ [][NextStatus]_vars

\* C11: batch-status reports every requested path whose row says indexing,
\* failed or outdated with that stored status, and does not call the
\* provider's get_metadata for it, whatever the lookups would do.
C11_StatusPassThrough ==
    [][(last' # last /\ last'.op = "status") =>
          \A p \in SeqToSet(last'.folder_paths) :
              LET row == GetFolderStatus(db, last'.provider_id, p)
              IN  (row # None /\ row[1].status \in {"indexing", "failed", "outdated"}) =>
                      /\ last'.final_statuses[p] = row[1].status
                      /\ p \notin last'.consulted]_vars

\* A request by the local provider for "d" and "x", the rows saying outdated
\* and failed, the lookup of "d" set to raise.
C11_Witness ==
    /\ last.op = "status"
    /\ last.provider_id = "local"
    /\ last.folder_paths = <<D, X>>
    /\ last.raising = {D}
    /\ last.final_statuses = (D :> "outdated" @@ X :> "failed")
    /\ last.consulted = {}
    /\ GetFolderStatus(db, last.provider_id, D)[1].status = "outdated"

\* C12: for a requested path whose row says indexed, batch-status reports
\* not_indexed when the provider returns no metadata and indexed when the
\* lookup raises; the rows and the chunks are as before and every requested
\* path is answered.
C12_ReconciliationFallbacks ==
    [][(last' # last /\ last'.op = "status") =>
          /\ db' = db /\ index' = index
          /\ DOMAIN last'.final_statuses = SeqToSet(last'.folder_paths)
          /\ \A p \in SeqToSet(last'.folder_paths) :
                LET row == GetFolderStatus(db, last'.provider_id, p)
                    got == GetMetadata(last'.provider_id, p, last'.failing)
                IN  (row # None /\ row[1].status = "indexed") =>
                        /\ p \in last'.raising => last'.final_statuses[p] = "indexed"
                        /\ (p \notin last'.raising /\ got.value = None) =>
                              last'.final_statuses[p] = "not_indexed"]_vars

\* The local provider asks for "d" and "x", both rows saying indexed, the 2
\* chunks of d/a.txt in the index: the lookup of "d" raises and "d" is
\* reported indexed; "x" does not exist and is reported not_indexed.
C12_Witness ==
    /\ last.op = "status"
    /\ last.provider_id = "local"
    /\ last.folder_paths = <<D, X>>
    /\ last.raising = {D}
    /\ last.consulted = {D, X}
    /\ last.final_statuses = (D :> "indexed" @@ X :> "not_indexed")
    /\ Cardinality(DOMAIN index) = 2

\* C13: get_multiple_folder_statuses returns the rows of exactly the requested
\* paths that have a row of that owner, each under its path; batch-status
\* answers every requested path, the paths without a row with not_indexed.
C13_MissingRecords ==
    /\ [](\A o \in ProviderIds, paths \in StatusRequests :
            LET got == GetMultipleFolderStatuses(db, o, paths)
            IN  /\ DOMAIN got = {p \in SeqToSet(paths) :
                                    \E r \in db : r.provider_id = o /\ r.folder_path = p}
                /\ \A p \in DOMAIN got :
                      got[p] \in db /\ got[p].provider_id = o /\ got[p].folder_path = p)
    /\ [][(last' # last /\ last'.op = "status") =>
            /\ DOMAIN last'.final_statuses = SeqToSet(last'.folder_paths)
            /\ \A p \in SeqToSet(last'.folder_paths) :
                  (~\E r \in db : r.provider_id = last'.provider_id /\ r.folder_path = p)
                      => last'.final_statuses[p] = "not_indexed"]_vars

\* The remote provider asks for "x", "d2" and "d": only the local provider
\* has a row of "x", nobody one of "d2", and the row of "d" says failed.
C13_Witness ==
    /\ last.op = "status"
    /\ last.provider_id = "nas"
    /\ last.folder_paths = <<X, D2, D>>
    /\ last.final_statuses = (X :> "not_indexed" @@ D2 :> "not_indexed" @@ D :> "failed")
    /\ GetFolderStatus(db, "local", X) # None
    /\ DOMAIN GetMultipleFolderStatuses(db, "nas", <<X, D2, D>>) = {D}

-----------------------------------------------------------------------------
(* SearchService.search (search_service.py) *)

\* A candidate count without the cap of 20.
CandidateNUncapped(n_results, item_count) == Min(n_results * 2, item_count)

\* candidate_n_results
CandidateNResults(n_results, item_count) ==
    Min(Min(n_results * 2, 20), item_count)

\* collection.query(n_results = n): the n nearest chunks, nearest first.
\* `nearest` holds all ids by ascending distance, `reply` is what the engine
\* does: "full" returns them, "none" returns no candidate, "raise" raises
\* (Chroma refuses a request for no results).
CollectionQuery(nearest, n, reply) ==
    IF reply = "raise" THEN Raise("query")
    ELSE IF reply = "none" \/ n <= 0 THEN Ret(<<>>)
    ELSE Ret(SubSeq(nearest, 1, n))

\* parsed_results with the reranker score of line 80; the distance of the
\* i-th nearest candidate is written i.
ParsedResults(coll, ids, reranker_scores) ==
    [i \in 1..Len(ids) |->
        [file_path |-> coll[ids[i]].metadata.file_path,
         content_snippet |-> coll[ids[i]].document,
         distance |-> i,
         chunk_number |-> coll[ids[i]].metadata.chunk_number,
         reranker_score |-> reranker_scores[i]]]

RemoveAt(seq, i) == SubSeq(seq, 1, i - 1) \o SubSeq(seq, i + 1, Len(seq))

\* A sort by ascending distance.
RECURSIVE SortByDistance(_)
SortByDistance(rs) ==
    IF rs = <<>> THEN <<>>
    ELSE LET best == CHOOSE i \in 1..Len(rs) :
                        \A j \in 1..Len(rs) : rs[i].distance <= rs[j].distance
         IN  <<rs[best]>> \o SortByDistance(RemoveAt(rs, best))

\* parsed_results.sort(key = reranker_score, reverse = True): the sort is
\* stable, so equal scores keep the order they came in.
RECURSIVE SortByScore(_)
SortByScore(rs) ==
    IF rs = <<>> THEN <<>>
    ELSE LET best == CHOOSE i \in 1..Len(rs) :
                        /\ \A j \in 1..Len(rs) : rs[j].reranker_score <= rs[i].reranker_score
                        /\ \A j \in 1..(i - 1) : rs[j].reranker_score < rs[i].reranker_score
         IN  <<rs[best]>> \o SortByScore(RemoveAt(rs, best))

\* A loop that keeps every candidate, whatever its file.
RECURSIVE TakeLoop(_, _, _, _)
TakeLoop(rs, final_results, seen_files, n_results) ==
    IF rs = <<>> \/ Len(final_results) >= n_results THEN final_results
    ELSE TakeLoop(Tail(rs), Append(final_results, Head(rs)), seen_files, n_results)

\* lines 90-99: the loop over the sorted candidates
RECURSIVE DedupeLoop(_, _, _, _)
DedupeLoop(rs, final_results, seen_files, n_results) ==
    IF rs = <<>> \/ Len(final_results) >= n_results THEN final_results
    ELSE IF Head(rs).file_path \notin seen_files
         THEN DedupeLoop(Tail(rs), Append(final_results, Head(rs)),
                         seen_files \cup {Head(rs).file_path}, n_results)
         ELSE DedupeLoop(Tail(rs), final_results, seen_files, n_results)

\* lines 73-101: from the parsed candidates to the results
RankAndDedupe(parsed_results, n_results) ==
    DedupeLoop(SortByScore(parsed_results), <<>>, {}, n_results)

\* search(query, n_results): what it asked of the index and of the reranker,
\* and what it returned.  score_table gives the reranker's score of the i-th
\* candidate.
Search(coll, n_results, nearest, reply, score_table) ==
    LET item_count == Cardinality(DOMAIN coll)
        candidate_n_results == CandidateNResults(n_results, item_count)
        results == CollectionQuery(nearest, candidate_n_results, reply)
        parsed_results ==
            ParsedResults(coll, results.value,
                          [i \in 1..Len(results.value) |-> score_table[i]])
        answer == [op |-> "search", n_results |-> n_results, item_count |-> item_count,
                   queried |-> FALSE, requested |-> 0, raised |-> FALSE,
                   reranked |-> FALSE, candidates |-> <<>>, final_results |-> <<>>]
    IN  IF item_count = 0 THEN answer
        ELSE IF results.raised
             THEN [answer EXCEPT !.queried = TRUE, !.requested = candidate_n_results,
                                 !.raised = TRUE]
        ELSE IF results.value = <<>>
             THEN [answer EXCEPT !.queried = TRUE, !.requested = candidate_n_results]
        ELSE [answer EXCEPT !.queried = TRUE, !.requested = candidate_n_results,
                            !.reranked = TRUE, !.candidates = parsed_results,
                            !.final_results = RankAndDedupe(parsed_results, n_results)]

\* GET /api/search
SearchCall(n_results, nearest, reply, score_table) ==
    /\ up
    /\ last' = Search(index, n_results, nearest, reply, score_table)
    /\ UNCHANGED <<db, index, tasks, fs, clock, up, store, nas>>

-----------------------------------------------------------------------------
(* SpecSearch: folders are indexed, then searched *)

\* the reranker's scores
ScoreValues == {0, 1, 2}

\* So few chunks are searched with every ranking and every scoring.
FewChunks(n) == n <= 4

\* the n_results asked for; 11 asks for more than 20 candidates
SearchKs == (0..MaxK) \cup {11}

Perms(S) ==
    {f \in [1..Cardinality(S) -> S] : \A i, j \in 1..Cardinality(S) : f[i] = f[j] => i = j}

\* The orders by distance searched: every order of a small index, one of a
\* large index.
Rankings(ids) ==
    IF FewChunks(Cardinality(ids)) THEN Perms(ids) ELSE {SetToSeq(ids)}

\* The reranker scores searched: every scoring of a small index, one of a
\* large index.
ScoreTables(n) ==
    IF FewChunks(n) THEN [1..n -> ScoreValues] ELSE {[i \in 1..n |-> i % 3]}

\* What the engine does with a request for n candidates.
Replies(n) == IF n <= 0 THEN {"raise", "none"} ELSE {"full", "none"}

NextSearch ==
    \/ \E f \in {D, D2} :
          /\ last.op # "search" /\ Len(tasks) < 2 /\ NoActiveTask
          /\ StartIndex("nas", f)
    \/ PipeStepOk
    \/ \E L \in {0, 9500} : tasks = <<>> /\ WriteFile(PathC, L)
    \/ /\ last.op # "search" /\ NoActiveTask
       /\ \E n_results \in SearchKs, nearest \in Rankings(DOMAIN index),
             score_table \in ScoreTables(Cardinality(DOMAIN index)) :
             \E reply \in Replies(CandidateNResults(n_results, Cardinality(DOMAIN index))) :
                SearchCall(n_results, nearest, reply, score_table)

SpecSearch == Init /\ [][NextSearch]_vars

\* C14: a search returns at most n_results entries, no two of the same
\* file_path, in an order of non-increasing reranker score.
C14_SearchResultShape ==
    last.op = "search" =>
        LET res == last.final_results
        IN  /\ Len(res) <= last.n_results
            /\ \A i, j \in 1..Len(res) : i # j => res[i].file_path # res[j].file_path
            /\ \A i, j \in 1..Len(res) :
                  i < j => res[i].reranker_score >= res[j].reranker_score

\* Four candidates, two chunks of each of two files, n_results 3: two entries
\* come back, the first scored higher than the second.
C14_Witness ==
    /\ last.op = "search"
    /\ last.n_results = 3
    /\ Len(last.candidates) = 4
    /\ Len(last.final_results) = 2
    /\ last.final_results[1].reranker_score > last.final_results[2].reranker_score

\* A result without its distance.
Undistanced(rs) ==
    [i \in 1..Len(rs) |-> [file_path |-> rs[i].file_path,
                           chunk_number |-> rs[i].chunk_number,
                           reranker_score |-> rs[i].reranker_score]]

\* The same candidates with the same scores at other distances: the
\* candidate at place order[i] becomes the i-th nearest.
Reordered(rs, order) == [i \in 1..Len(rs) |-> [rs[order[i]] EXCEPT !.distance = i]]

\* Every returned entry is a candidate with the highest score of its file, and
\* a candidate is left out only behind a returned entry of its file scored at
\* least as high, or behind n_results returned entries scored at least as high.
BestChunkPerFile ==
    LET cands == SeqToSet(last.candidates)
        res   == SeqToSet(last.final_results)
    IN  /\ \A r \in res :
              /\ r \in cands
              /\ \A c \in cands : c.file_path = r.file_path =>
                                      c.reranker_score <= r.reranker_score
        /\ \A c \in cands \ res :
              \/ \E r \in res : /\ r.file_path = c.file_path
                                /\ r.reranker_score >= c.reranker_score
              \/ /\ Len(last.final_results) >= last.n_results
                 /\ \A r \in res : r.reranker_score >= c.reranker_score

\* The results are the same at whatever distances the candidates lie.
DistanceFree ==
    \A order \in Perms(1..Len(last.candidates)) :
        Undistanced(RankAndDedupe(Reordered(last.candidates, order), last.n_results))
            = Undistanced(last.final_results)

C16_CandidateBound ==
    last.op = "search" =>
        LET k == last.n_results
            index_size == Cardinality(DOMAIN index)
            smallest == CHOOSE m \in {2 * k, 20, index_size} :
                            \A x \in {2 * k, 20, index_size} : m <= x
        IN  /\ index_size = 0 =>
                  ~last.queried /\ ~last.reranked /\ last.final_results = <<>>
            /\ index_size > 0 => last.queried /\ last.requested = smallest
            /\ last.candidates = <<>> => ~last.reranked /\ last.final_results = <<>>
            /\ last.reranked =>
                  last.candidates # <<>> /\ Len(last.candidates) <= last.requested

\* A search for 11 results in an index of more than 20 chunks asks for 20
\* candidates.
C16_Witness ==
    /\ last.op = "search"
    /\ last.n_results = 11
    /\ Cardinality(DOMAIN index) > 20
    /\ last.requested = 20
    /\ Len(last.candidates) = 20
    /\ last.reranked

-----------------------------------------------------------------------------
(* SpecRace: start-index is triggered again while a run is going on *)

NextRace ==
    \/ \E o \in ProviderIds : Len(tasks) < 2 /\ StartIndex(o, D2)
    \/ PipeStep

SpecRace == Init /\ [][NextRace]_vars

\* The writes of a task, each with the file_count it stores.
CountWritten(t, status) == IF status = "indexed" THEN t.total_chunks_indexed ELSE 0

\* C17: start-index is accepted while a run for the same folder is going on
\* and queues one more run without touching the others; a step of one run
\* leaves the other runs as they are; every finished run has written
\* indexing and then one terminal status; after every write of a run the
\* folder's row holds that write's status and chunk count, so the row ends
\* with those of the last writer; and two finished runs that read the same
\* files submitted the same chunk ids, all of them in the index.
C17_ConcurrentRuns ==
    /\ [](\A o \in ProviderIds :
            (up /\ Len(tasks) < 2) => ENABLED (Len(tasks) < 2 /\ StartIndex(o, D2)))
    /\ [][\A i \in 1..Len(tasks) :
            /\ Len(tasks') >= Len(tasks)
            /\ tasks'[i] # tasks[i] =>
                  /\ \A j \in 1..Len(tasks) : j # i => tasks'[j] = tasks[j]
                  /\ Len(WritesOf(tasks'[i])) > Len(WritesOf(tasks[i])) =>
                        LET w == WritesOf(tasks'[i])[Len(WritesOf(tasks'[i]))]
                        IN  /\ RowOf(db', tasks[i]) # None
                            /\ RowOf(db', tasks[i])[1].status = w
                            /\ RowOf(db', tasks[i])[1].file_count
                                  = CountWritten(tasks'[i], w)]_vars
    /\ [](\A i \in 1..Len(tasks) :
            tasks[i].pc = "done" =>
                /\ Len(WritesOf(tasks[i])) = 2
                /\ WritesOf(tasks[i])[1] = "indexing"
                /\ WritesOf(tasks[i])[2] \in {"indexed", "failed"})
    /\ [](\A i, j \in 1..Len(tasks) :
            (/\ tasks[i].pc = "done" /\ tasks[j].pc = "done"
             /\ tasks[i].folder_path = tasks[j].folder_path
             /\ OutcomeKinds(tasks[i]) = OutcomeKinds(tasks[j])) =>
                /\ SubmittedIds(tasks[i]) = SubmittedIds(tasks[j])
                /\ SubmittedIds(tasks[i]) \subseteq DOMAIN index)

\* Two runs of the same owner over "d2" interleave: the second has written
\* indexing and submitted its first file, the first has then finished, and
\* the row says indexed with the 5 chunks of the first while the second is
\* still running.
C17_Witness ==
    /\ Len(tasks) = 2
    /\ SameFolder(tasks[1], tasks[2])
    /\ tasks[1].pc = "done"
    /\ tasks[1].total_chunks_indexed = 5
    /\ tasks[2].pc = "files"
    /\ WritesOf(tasks[2]) = <<"indexing">>
    /\ SubmittedPaths(tasks[2]) = {PathE}
    /\ RowOf(db, tasks[2])[1].status = "indexed"
    /\ RowOf(db, tasks[2])[1].file_count = 5
    /\ Cardinality(DOMAIN index) = 5

-----------------------------------------------------------------------------
(* SpecDeleteRace: the index of a folder is deleted while a run over it is
   going on *)

NextDeleteRace ==
    \/ \E o \in ProviderIds : tasks = <<>> /\ StartIndex(o, D2)
    \/ PipeStepOk
    \/ \E o \in ProviderIds : DeleteIndex(o, D2)
    \/ \E o \in ProviderIds : BatchStatus(o, <<D2>>, {}, {})

\* The task is resumed whenever the call it awaits has returned: weak
\* fairness of PipeStepOk, its enabling condition written as PipeEnabled.
SpecDeleteRace ==
    /\ Init /\ [][NextDeleteRace]_vars
    /\ ([]<>(~PipeEnabled) \/ []<><<PipeStepOk>>_vars)

\* C18: a delete-index leaves every task as it is, so the run goes on: it
\* reaches its end, each of its later submissions puts the chunks into the
\* index and its final write puts the row back with status indexed.
C18_DeleteDoesNotCancel ==
    /\ [][\A o \in ProviderIds : DeleteIndex(o, D2) => tasks' = tasks]_vars
    /\ (tasks # <<>>) ~> (tasks # <<>> /\ tasks[1].pc = "done")
    /\ [][\A i \in 1..Len(tasks) : tasks'[i] # tasks[i] =>
            /\ SubmittedIds(tasks'[i]) \ SubmittedIds(tasks[i]) \subseteq DOMAIN index'
            /\ tasks'[i].pc = "done" =>
                  /\ RowOf(db', tasks[i]) # None
                  /\ RowOf(db', tasks[i])[1].status = "indexed"]_vars

\* The deletion for "d2" returned while the run had submitted d2/e.txt only
\* and took its 2 chunks away; the run has then submitted d2/s.md/c.py and
\* finished: the index holds 3 chunks under "d2" and the row is back, saying
\* indexed with 5 chunks.
C18_Witness ==
    /\ last.op = "delete_index"
    /\ last.folder_path = D2
    /\ last.deleted_count = 2
    /\ Len(tasks) = 1
    /\ tasks[1].pc = "done"
    /\ tasks[1].provider_id = last.provider_id
    /\ Cardinality(DOMAIN index) = 3
    /\ \A id \in DOMAIN index : StartsWith(id, D2)
    /\ RowOf(db, tasks[1]) # None
    /\ RowOf(db, tasks[1])[1].status = "indexed"
    /\ RowOf(db, tasks[1])[1].file_count = 5

-----------------------------------------------------------------------------
(* SpecFail: runs that fail, a folder that disappears, crashes and restarts *)

\* A folder is removed with everything in it.
RemoveTree(dir) ==
    /\ dir \in DirPaths \cap fs.present
    /\ fs' = [fs EXCEPT !.present =
                    {p \in @ : p # dir /\ ~StartsWith(p, dir \o <<"/">>)}]
    /\ UNCHANGED <<db, index, tasks, clock, up, last, store, nas>>

NextFail ==
    \/ \E o \in ProviderIds : Len(tasks) < 2 /\ NoActiveTask /\ StartIndex(o, D2)
    \/ PipeStep
    \/ tasks # <<>> /\ NoActiveTask /\ RemoveTree(D2)
    \/ Crash
    \/ Restart
    \/ nas.sid = None /\ Login(TRUE)

SpecFail == Init /\ [][NextFail]_vars

\* The rows that say failed.
FailedKeys(rows) == {<<r.provider_id, r.folder_path>> : r \in {x \in rows : x.status = "failed"}}

\* C19: a step that makes a row failed, be it the job-level handler of a run
\* or the rewrite at startup, leaves the index exactly as it was.
C19_NoRollback ==
    [][FailedKeys(db') \ FailedKeys(db) # {} => index' = index]_vars

\* The run over "d2" was interrupted after it had submitted d2/e.txt; at the
\* restart its row went from indexing to failed and the 2 chunks are still in
\* the index.
C19_Witness ==
    /\ last.op = "startup"
    /\ last.stale_folders = 1
    /\ \E r \in db : r.folder_path = D2 /\ r.status = "failed"
    /\ Len(tasks) = 1
    /\ tasks[1].pc = "dead"
    /\ DOMAIN index = {ChunkId(PathE, 1), ChunkId(PathE, 2)}

-----------------------------------------------------------------------------
(* SpecScope: rows of two owners and two folders are written and removed,
   the chunks of one run in the index *)

ScopeKeys == {<<"local", D>>, <<"nas", D>>, <<"local", D2>>}

NextScope ==
    \/ \E k \in ScopeKeys, st \in WrittenStatuses :
          NoActiveTask /\ SetFolderStatus(k[1], k[2], st, 0)
    \/ \E k \in ScopeKeys : NoActiveTask /\ RemoveFolder(k[1], k[2])
    \/ tasks = <<>> /\ StartIndex("nas", D)
    \/ PipeStepOk

SpecScope == Init /\ [][NextScope]_vars

\* The rows of every other key.
OtherRows(rows, provider_id, folder_path) ==
    {r \in rows : ~(r.provider_id = provider_id /\ r.folder_path = folder_path)}

\* C20: set_folder_status and remove_folder change the row of their (owner,
\* folder) only: the rows of other owners with that folder path and of that
\* owner with other folder paths are as before, and so is every chunk;
\* remove_folder takes the row away, set_folder_status leaves one row.
C20_RowScoped ==
    [][\A k \in ScopeKeys :
          /\ (\E st \in WrittenStatuses : SetFolderStatus(k[1], k[2], st, 0)) =>
                /\ OtherRows(db', k[1], k[2]) = OtherRows(db, k[1], k[2])
                /\ Cardinality(db' \ OtherRows(db', k[1], k[2])) = 1
                /\ index' = index
          /\ RemoveFolder(k[1], k[2]) =>
                /\ OtherRows(db', k[1], k[2]) = OtherRows(db, k[1], k[2])
                /\ db' = OtherRows(db, k[1], k[2])
                /\ index' = index]_vars

\* The remote owner's run over "d" has ended and its row has been removed
\* since: the 2 chunks are still in the index, and the local owner's rows of
\* "d" and "d2" are there, one failed, one indexed.
C20_Witness ==
    /\ Len(tasks) = 1
    /\ tasks[1].pc = "done"
    /\ GetFolderStatus(db, "nas", D) = None
    /\ Cardinality(DOMAIN index) = 2
    /\ GetFolderStatus(db, "local", D) # None
    /\ GetFolderStatus(db, "local", D)[1].status = "failed"
    /\ GetFolderStatus(db, "local", D2) # None
    /\ GetFolderStatus(db, "local", D2)[1].status = "indexed"

-----------------------------------------------------------------------------
(* SpecStorage: the storage layer fails and recovers while rows are written, *)
(* read and removed and a run goes on                                        *)

StorageKeys == {<<"local", D>>, <<"nas", D>>}

StorageRequests == {<<D>>, <<X, D>>}

NextStorage ==
    \/ StorageFault
    \/ StorageRecover
    \/ \E st \in {"indexed", "failed"} :
          NoActiveTask /\ SetFolderStatus("local", D, st, 0)
    \/ NoActiveTask /\ RemoveFolder("local", D)
    \/ \E k \in StorageKeys : NoActiveTask /\ GetStatusCall(k[1], k[2])
    \/ \E o \in ProviderIds, paths \in StorageRequests :
          NoActiveTask /\ BatchStatus(o, paths, {}, {})
    \/ \E o \in ProviderIds : NoActiveTask /\ DeleteIndex(o, D)
    \/ tasks = <<>> /\ StartIndex("nas", D)
    \/ PipeStepOk

SpecStorage == Init /\ [][NextStorage]_vars

\* C21: while the storage layer fails no call changes the store and none
\* raises: a deletion and a status write return with the rows as they were,
\* get_folder_status returns None, batch-status reports not_indexed for every
\* requested path, and a run whose indexing write failed goes on to the
\* enumeration.
C21_SwallowedStorageErrors ==
    [][(StorageError /\ store' = store) =>
          /\ db' = db
          /\ (last' # last /\ last'.op = "get_folder_status") => last'.result = None
          /\ (last' # last /\ last'.op = "status") =>
                \A p \in SeqToSet(last'.folder_paths) :
                    last'.final_statuses[p] = "not_indexed"
          /\ (last' # last /\ last'.op = "delete_index") =>
                index' = CollectionDelete(index, IdsToDelete(index, last'.folder_path))
          /\ \A t \in 1..Len(tasks) :
                /\ tasks'[t].pc # "raised"
                /\ tasks[t].pc = "queued" /\ tasks'[t] # tasks[t] =>
                      /\ tasks'[t].pc = "crawl"
                      /\ tasks'[t].log = <<Event("write_error", "indexing")>>]_vars

\* The indexing write of a run failed and the run has submitted the 2 chunks
\* of d/a.txt all the same; the remote owner's row says indexed, the storage
\* layer fails and batch-status has reported not_indexed for "d".
C21_Witness ==
    /\ StorageError
    /\ Len(tasks) = 1
    /\ Len(tasks[1].log) >= 1
    /\ tasks[1].log[1] = Event("write_error", "indexing")
    /\ \E i \in 1..Len(tasks[1].log) : tasks[1].log[i].ev = "submit"
    /\ DOMAIN index = {ChunkId(PathA, 1), ChunkId(PathA, 2)}
    /\ \E r \in db : HasKey(r, "nas", D) /\ r.status = "indexed" /\ r.file_count = 2
    /\ last.op = "status"
    /\ last.provider_id = "nas"
    /\ last.folder_paths = <<X, D>>
    /\ last.final_statuses[D] = "not_indexed"

-----------------------------------------------------------------------------
(* SpecSandbox: the operations of the LocalProvider are called with paths   *)
(* inside the root "/r", above it and beside it                             *)

SandboxPaths ==
    { <<".">>, D, PathA, PathE,
      <<"/", "r", "/", "d">>,                              \* "/r/d"
      <<"d", "/", "..", "/", "d", "2">>,                   \* "d/../d2"
      <<"..">>,                                            \* ".."
      <<"/", "q">>,                                        \* "/q"
      <<"..", "/", "q">>,                                  \* "../q"
      <<"..", "/", "r", "2">>,                             \* "../r2"
      <<"..", "/", "r", "2", "/", "k", ".txt">>,           \* "../r2/k.txt"
      <<"/", "r", "2", "/", "k", ".txt">> }                \* "/r2/k.txt"

\* the paths handed to the operations that write and remove
SandboxWritePaths ==
    { PathA,
      <<"..", "/", "q">>,
      <<"..", "/", "r", "2", "/", "k", ".txt">> }

NextSandbox ==
    \/ \E path \in SandboxPaths : LocalListFiles(path)
    \/ \E path \in SandboxPaths : LocalGetMetadataCall(path)
    \/ \E path \in SandboxPaths : LocalReadFileContent(path)
    \/ \E path \in SandboxPaths : LocalListFilesRecursiveCall(path)
    \/ \E path \in SandboxPaths : LocalDownloadFile(path)
    \/ \E path \in SandboxWritePaths : LocalUploadFile(path, 100)
    \/ \E path \in SandboxWritePaths : LocalDeleteItem(path)

SpecSandbox == Init /\ [][NextSandbox]_vars

\* C22: a call of the LocalProvider whose path resolves outside the root is
\* refused by _get_full_path, whatever a call acts on is the root or lies
\* below it, and nothing outside the root is written or removed.
C22_LocalSandbox ==
    [][(last' # last /\ last'.op = "local") =>
          /\ ~InsideRoot(AbsPath(OsJoin(RootDir, last'.path))) => last'.denied
          /\ last'.acted # None => InsideRoot(last'.acted[1])
          /\ fs'.present \cap OutsidePaths = fs.present \cap OutsidePaths]_vars

-----------------------------------------------------------------------------
(* SpecSession: the operations of a SynologyAPIProvider are called before   *)
(* and after its login                                                      *)

SessionPaths == {D, PathA, PathE}

Answers == {"ok", "refused"}

NextSession ==
    \/ SynoConstruct
    \/ \E ok \in BOOLEAN : Login(ok)
    \/ \E path \in SessionPaths, answer \in Answers : SynoListFilesCall(path, answer)
    \/ \E path \in SessionPaths, answer \in Answers : SynoGetMetadataCall(path, answer)
    \/ \E path \in SessionPaths, answer \in Answers :
          SynoListFilesRecursiveCall(path, answer)
    \/ \E path \in SessionPaths, answer \in Answers : SynoReadFileContent(path, answer)
    \/ \E path \in SessionPaths, answer \in Answers : SynoDownloadFile(path, answer)
    \/ \E answer \in Answers : SynoUploadFile(PathA, 100, answer)
    \/ \E answer \in Answers : SynoDeleteItem(PathA, answer)

SpecSession == Init /\ [][NextSession]_vars

\* C23: a file operation of the remote provider called without a session
\* raises PermissionError and sends no request to the NAS; with a session
\* every request it sends carries the session's _sid.
C23_RemoteSession ==
    [][(last' # last /\ last'.op = "nas") =>
          /\ last'.sid = None =>
                /\ last'.result = Raise("PermissionError")
                /\ last'.requests = {}
          /\ last'.sid # None =>
                \A r \in last'.requests : r.sid = last'.sid]_vars

-----------------------------------------------------------------------------
(* SpecShutdown: the server is shut down while runs go on, exits and is     *)
(* started again                                                            *)

NextShutdown ==
    \/ \E o \in ProviderIds :
          ~ShuttingDown /\ Len(tasks) < 2 /\ NoActiveTask /\ StartIndex(o, D2)
    \/ PipeStepOk
    \/ ShutdownSessions
    \/ \E persist_raises \in BOOLEAN : ShutdownStores(persist_raises)
    \/ ProcessExit
    \/ Restart

SpecShutdown == Init /\ [][NextShutdown]_vars

\* C24: shutdown closes the status store only after the provider sessions
\* are closed and the index persisted, and leaves the runs as they are; once
\* the store is closed no row changes until the next start, whatever the runs
\* do; the start rewrites every row that says indexing to failed.
C24_ShutdownRestart ==
    [][/\ (store # "closed" /\ store' = "closed") =>
             /\ nas.sid = None \/ nas.closed
             /\ last'.persisted
             /\ tasks' = tasks
       /\ (store = "closed" /\ store' = "closed") => db' = db
       /\ (~up /\ up') =>
             \A r \in db : r.status = "indexing" =>
                 [r EXCEPT !.status = "failed"] \in db']_vars

\* A run over "d2" was going on when the store was closed: it has submitted
\* the chunks of both files since, its last write raised, the only status it
\* wrote is indexing, and after the next start its row says failed.
C24_Witness ==
    /\ last.op = "startup"
    /\ last.stale_folders = 1
    /\ Len(tasks) = 1
    /\ tasks[1].pc = "raised"
    /\ WritesOf(tasks[1]) = <<"indexing">>
    /\ tasks[1].total_chunks_indexed = 5
    /\ \E r \in db : HasKey(r, tasks[1].provider_id, D2) /\ r.status = "failed"

-----------------------------------------------------------------------------
(* SpecDomain: every request of the core, crashes and restarts, the folder  *)
(* "d" modified while time passes                                           *)

DomainFolders == {D, X}

NextDomain ==
    \/ \E o \in ProviderIds, f \in DomainFolders :
          Len(tasks) < 2 /\ NoActiveTask /\ StartIndex(o, f)
    \/ PipeStepOk
    \/ \E o \in ProviderIds : BatchStatus(o, <<D, X>>, {}, {})
    \/ \E o \in ProviderIds : DeleteIndex(o, D)
    \/ /\ index # <<>>
       /\ SearchCall(1, SetToSeq(DOMAIN index), "full",
                     [i \in 1..Cardinality(DOMAIN index) |-> 0])
    \/ Tick
    \/ Touch(D)
    \/ Crash
    \/ Restart
    \/ Login(TRUE)

SpecDomain == Init /\ [][NextDomain]_vars

\* C25: every stored row says indexing, indexed or failed, whatever requests,
\* crashes and restarts there have been; batch-status, which alone computes
\* outdated and not_indexed, changes neither the store nor the index.
C25_PersistedStatusDomain ==
    [][/\ \A r \in db' : r.status \in {"indexing", "indexed", "failed"}
       /\ (last' # last /\ last'.op = "status") => (db' = db /\ index' = index)]_vars

\* Batch-status has answered outdated for "d" and not_indexed for "x"; the
\* row of "d" says indexed, and "x" has a row of the other owner, failed.
C25_Witness ==
    /\ last.op = "status"
    /\ last.provider_id = "nas"
    /\ last.final_statuses[D] = "outdated"
    /\ last.final_statuses[X] = "not_indexed"
    /\ \E r \in db : HasKey(r, "nas", D) /\ r.status = "indexed"
    /\ \E r \in db : HasKey(r, "local", X) /\ r.status = "failed"
    /\ \A r \in db : r.status \notin {"outdated", "not_indexed"}

-----------------------------------------------------------------------------
(* SpecCount: runs over "d2" that end, fail or are interrupted, and its     *)
(* index deleted                                                            *)

NextCount ==
    \/ \E o \in ProviderIds : Len(tasks) < 2 /\ NoActiveTask /\ StartIndex(o, D2)
    \/ PipeStep
    \/ tasks # <<>> /\ NoActiveTask /\ RemoveTree(D2)
    \/ \E o \in ProviderIds : DeleteIndex(o, D2)
    \/ Crash
    \/ Restart
    \/ Login(TRUE)

SpecCount == Init /\ [][NextCount]_vars

\* C26: a stored row that says indexing or failed has file_count 0, whatever
\* the row said before.
C26_CountOnlyOnIndexed ==
    \A r \in db : r.status \in {"indexing", "failed"} => r.file_count = 0

\* The first run over "d2" wrote indexed with 5 chunks, the second one wrote
\* indexing and then failed: the row says failed with file_count 0 and the 5
\* chunks are in the index.
C26_Witness ==
    /\ Len(tasks) = 2
    /\ tasks[1].provider_id = tasks[2].provider_id
    /\ WritesOf(tasks[1]) = <<"indexing", "indexed">>
    /\ tasks[1].total_chunks_indexed = 5
    /\ WritesOf(tasks[2]) = <<"indexing", "failed">>
    /\ Cardinality(DOMAIN index) = 5
    /\ \E r \in db : /\ HasKey(r, tasks[2].provider_id, D2)
                    /\ r.status = "failed"
                    /\ r.file_count = 0

-----------------------------------------------------------------------------
(* SpecAbort: runs over "d2" and over a folder that does not exist, with    *)
(* every failure of a run, the folder removed, the server shut down         *)

NextAbort ==
    \/ \E o \in ProviderIds, f \in {D2, X} :
          ~ShuttingDown /\ Len(tasks) < 2 /\ NoActiveTask /\ StartIndex(o, f)
    \/ PipeStep
    \/ tasks # <<>> /\ NoActiveTask /\ ~ShuttingDown /\ RemoveTree(D2)
    \/ ShutdownSessions
    \/ ShutdownStores(FALSE)
    \/ ProcessExit
    \/ Restart
    \/ Login(TRUE)

SpecAbort == Init /\ [][NextAbort]_vars

\* C27: a run that has written failed has submitted no chunk, so every chunk
\* of the index was submitted by a run that did not write failed.
C27_FailingRunSubmitsNothing ==
    /\ \A t \in 1..Len(tasks) :
          "failed" \in SeqToSet(WritesOf(tasks[t])) => SubmitsOf(tasks[t]) = {}
    /\ \A id \in DOMAIN index :
          \E t \in 1..Len(tasks) :
              /\ id \in SubmittedIds(tasks[t])
              /\ "failed" \notin SeqToSet(WritesOf(tasks[t]))

\* The folder "d2" was indexed by a first run and then removed: the second
\* run's enumeration raised, it wrote failed and submitted nothing, and the
\* 5 chunks of the first run are in the index under the failed row.
C27_Witness ==
    /\ Len(tasks) = 2
    /\ tasks[1].provider_id = "local"
    /\ tasks[2].provider_id = "local"
    /\ tasks[2].folder_path = D2
    /\ \E i \in 1..Len(tasks[2].log) : tasks[2].log[i] = Event("list_raised", D2)
    /\ tasks[2].pc = "done"
    /\ SubmitsOf(tasks[2]) = {}
    /\ Cardinality(SubmittedIds(tasks[1])) = 5
    /\ SubmittedIds(tasks[1]) = DOMAIN index
    /\ \E r \in db : HasKey(r, "local", D2) /\ r.status = "failed"

-----------------------------------------------------------------------------
(* SpecReindex: the folder "d2" is indexed again and again by one owner,    *)
(* d2/e.txt rewritten or removed between the runs, the index deleted        *)

NextReindex ==
    \/ Len(tasks) < 2 /\ NoActiveTask /\ StartIndex("nas", D2)
    \/ PipeStepOk
    \/ \E L \in {100, 600} : NoActiveTask /\ WriteFile(PathE, L)
    \/ NoActiveTask /\ last.op # "local" /\ LocalDeleteItem(PathE)
    \/ NoActiveTask /\ DeleteIndex("nas", D2)
    \/ NoActiveTask /\ BatchStatus("nas", <<D2>>, {}, {})

SpecReindex == Init /\ [][NextReindex]_vars

\* The chunks of the files of a folder.
ChunksIn(coll, folder_path) ==
    {id \in DOMAIN coll : InFolder(coll[id].metadata.file_path, folder_path)}

\* C28: while no run is going on, a row that says indexed with file_count n
\* has exactly n chunks of its folder in the index.
C28_CountMatchesIndex ==
    NoActiveTask =>
        \A r \in db : r.status = "indexed" =>
            Cardinality(ChunksIn(index, r.folder_path)) = r.file_count

-----------------------------------------------------------------------------
(* SpecNeighbours: "d", its sibling "d2" and the subfolder "d2/s.md" are    *)
(* indexed one after the other and their indexes deleted                    *)

NeighbourFolders == {D, D2, PathS}

NextNeighbours ==
    \/ \E o \in ProviderIds, f \in NeighbourFolders :
          Len(tasks) < 3 /\ NoActiveTask /\ StartIndex(o, f)
    \/ PipeStepOk
    \/ \E o \in ProviderIds, f \in NeighbourFolders : NoActiveTask /\ DeleteIndex(o, f)
    \/ \E f \in NeighbourFolders : NoActiveTask /\ BatchStatus("local", <<f>>, {}, {})

SpecNeighbours == Init /\ [][NextNeighbours]_vars

\* C29: with no run going on, delete-index of a folder F leaves every chunk
\* of every other folder whose row says indexed, be it a sibling of F or a
\* subfolder of F indexed on its own.
C29_DeletionSparesOthers ==
    [][\A o \in ProviderIds, f \in NeighbourFolders :
          (NoActiveTask /\ DeleteIndex(o, f)) =>
              \A r \in db' :
                  (r.status = "indexed" /\ r.folder_path # f
                       /\ ~InFolder(f, r.folder_path)) =>
                      ChunksIn(index, r.folder_path) \subseteq DOMAIN index']_vars

-----------------------------------------------------------------------------
(* SpecIsolation: both owners index the folder "d2" under the same path,    *)
(* d2/e.txt is rewritten between the runs, and either owner deletes         *)

NextIsolation ==
    \/ \E o \in ProviderIds : Len(tasks) < 3 /\ NoActiveTask /\ StartIndex(o, D2)
    \/ PipeStepOk
    \/ \E L \in {100, 600} : NoActiveTask /\ WriteFile(PathE, L)
    \/ \E o \in ProviderIds : NoActiveTask /\ DeleteIndex(o, D2)
    \/ \E o \in ProviderIds : NoActiveTask /\ BatchStatus(o, <<D2>>, {}, {})

SpecIsolation == Init /\ [][NextIsolation]_vars

\* The owners whose runs submitted a chunk.
OwnersOf(id) ==
    {tasks[t].provider_id : t \in {u \in 1..Len(tasks) : id \in SubmittedIds(tasks[u])}}

\* A step taken for an owner: its delete-index, or a step of one of its runs.
ActsFor(o) ==
    \/ DeleteIndex(o, D2)
    \/ /\ Len(tasks') = Len(tasks)
       /\ \E t \in 1..Len(tasks) : tasks[t].provider_id = o /\ tasks'[t] # tasks[t]

\* C30: a step taken for one owner, a delete-index or a step of its run,
\* leaves every chunk that only other owners' runs submitted in the index
\* with the same document.
C30_OwnerIsolation ==
    [][\A o \in ProviderIds :
          ActsFor(o) =>
              \A id \in DOMAIN index :
                  (OwnersOf(id) # {} /\ o \notin OwnersOf(id)) =>
                      /\ id \in DOMAIN index'
                      /\ index'[id] = index[id]]_vars

-----------------------------------------------------------------------------
(* SpecAck: start-index of "d" is acknowledged, the queued task runs when   *)
(* the event loop gets to it, and batch-status is asked at any moment       *)

NextAck ==
    \/ \E o \in ProviderIds : Len(tasks) < 2 /\ StartIndex(o, D)
    \/ PipeStepOk
    \/ \E o \in ProviderIds : BatchStatus(o, <<D>>, {}, {})
    \/ \E L \in {100, 600} : WriteFile(PathA, L)

SpecAck == Init /\ [][NextAck]_vars

\* The runs acknowledged to an owner for a folder, oldest first.
AckedRuns(o, f) ==
    SelectSeq(tasks, LAMBDA t : t.provider_id = o /\ t.folder_path = f)

\* An answer of batch-status that reflects a run: indexing, or what the row
\* of the run's last write reads as.
Reflects(t, answer) ==
    \/ answer = "indexing"
    \/ /\ WritesOf(t) # <<>>
       /\ LET w == WritesOf(t)[Len(WritesOf(t))]
          IN  answer = w \/ (w = "indexed" /\ answer \in {"outdated", "not_indexed"})

\* C31: once start-index of a folder was acknowledged to an owner, every
\* batch-status of that owner for the folder answers indexing or the
\* terminal status of the acknowledged run, never what the folder had before.
C31_AcknowledgedStartVisible ==
    [][\A o \in ProviderIds :
          (BatchStatus(o, <<D>>, {}, {}) /\ AckedRuns(o, D) # <<>>) =>
              Reflects(AckedRuns(o, D)[Len(AckedRuns(o, D))], last'.final_statuses[D])]_vars

-----------------------------------------------------------------------------
(* SpecModified: a run over "d2" enumerates the folder at time 0; at least  *)
(* a microsecond later, while the run is reading, d2/e.txt is removed from  *)
(* the folder; batch-status is asked after the run                          *)

Reading == \E t \in 1..Len(tasks) : tasks[t].pc = "files"

NextModified ==
    \/ \E o \in ProviderIds : Len(tasks) < 2 /\ NoActiveTask /\ StartIndex(o, D2)
    \/ (clock = 0 \/ Reading) /\ PipeStepOk
    \/ Tick
    \/ Reading /\ Now > 0 /\ LocalDeleteItem(PathE)
    \/ \E o \in ProviderIds : NoActiveTask /\ BatchStatus(o, <<D2>>, {}, {})

SpecModified == Init /\ [][NextModified]_vars

\* The folder lost a file that the run had enumerated.
ModifiedSinceListed(t) ==
    /\ Listed(t)
    /\ \E p \in SeqToSet(EventsOf(t.log, "listed")[1].arg) : p \notin fs.present

\* C32: when the folder was modified after the run had enumerated it and
\* before the run wrote indexed, a batch-status after the run answers
\* outdated.
C32_ModificationDetected ==
    [][\A o \in ProviderIds :
          (/\ NoActiveTask
           /\ BatchStatus(o, <<D2>>, {}, {})
           /\ AckedRuns(o, D2) # <<>>
           /\ LET t == AckedRuns(o, D2)[Len(AckedRuns(o, D2))]
              IN  /\ WritesOf(t) # <<>>
                  /\ WritesOf(t)[Len(WritesOf(t))] = "indexed"
                  /\ ModifiedSinceListed(t)) =>
              last'.final_statuses[D2] = "outdated"]_vars

=============================================================================
